---- MODULE Spec2Model ----
(***************************************************************************)
(* Cyon front end: the optimizer's PassManager (core/optimizer.py) and the *)
(* tree-walking Interpreter with its Environment chain                     *)
(* (core/interpreter.py), over the AST of core/parser.py.                  *)
(*                                                                         *)
(* AST nodes are records tagged by k (the Python class name) carrying the  *)
(* dataclass fields under their own names.  Python's None is the record    *)
(* None; an IfStmt without else has else_branch = <<>> (the code only ever *)
(* tests else_branch for truth or walks it as a list, and None and [] are  *)
(* alike for both).  Python values are records tagged by t.                *)
(***************************************************************************)
EXTENDS Integers, Sequences, FiniteSets, TLC

VARIABLES
    heap,        \* optimizer: the object store, a sequence of cells; a node's identity is its index
    program,     \* optimizer: id of the Program the caller passes to PassManager.run
    program0,    \* optimizer: the caller's tree as it was when run was called
    passes,      \* optimizer: PassManager.passes, a sequence of Pass records
    p,           \* optimizer: the local p of PassManager.run (0 before the clone is made)
    pmpc,        \* optimizer: position of PassManager.run: "call", "loop", "done"
    pidx,        \* optimizer: index of the loop `for ps in self.passes`
    pre,         \* optimizer: the tree p denoted when the most recently called pass started
    invoked,     \* optimizer: one record [name, raised] per call of a pass's fn, in call order
    lines,       \* optimizer: OptLogger.lines (the manager's messages and purity_analysis's reports)
    iprog,       \* interpreter: the Program given to run_program
    envs,        \* interpreter: the Environment objects, a sequence of [parent, values]; 1 is global_env
    call_stack,  \* interpreter: Interpreter.call_stack, a sequence of [name, env]
    exec_count,  \* interpreter: Interpreter.exec_count
    profile,     \* interpreter: Interpreter.profile
    out,         \* interpreter: what print has written, one entry (the argument values) per call
    trace,       \* interpreter: history of the evaluation, one event record per step of interest
    ipc,         \* interpreter: position of run_program: "idle", "load", "main", "done"
    itop,        \* interpreter: index of the loop `for node in program.body`
    result,      \* interpreter: how run_program ended: [sig, val]
    last,        \* environment: the most recent Environment operation and the environments before it
    clock,       \* sandbox: the wall clock time.time() reads, in ticks of its resolution
    time_limit,  \* sandbox: Sandbox.time_limit, in the same ticks
    start,       \* sandbox: the local start of Sandbox.run
    elapsed,     \* sandbox: the local elapsed of Sandbox.run
    text,        \* front end: Lexer.text, the source as a sequence of characters
    tokens,      \* front end: what tokenize has produced (TokenStream.tokens), a sequence of Token
    parsed       \* front end: how parse_text ended: the Program or the exception

pmVars == <<heap, program, program0, passes, p, pmpc, pidx, pre, invoked, lines>>

itVars == <<iprog, envs, call_stack, exec_count, profile, out, trace, ipc, itop, result>>

sbVars == <<clock, time_limit, start, elapsed>>

feVars == <<text, tokens, parsed>>

vars == <<heap, program, program0, passes, p, pmpc, pidx, pre, invoked, lines,
          iprog, envs, call_stack, exec_count, profile, out, trace, ipc, itop, result, last,
          clock, time_limit, start, elapsed, text, tokens, parsed>>

(***************************************************************************)
(* Bounds                                                                  *)
(***************************************************************************)
MaxPasses == 2

MaxSteps == 24

MaxTop == 3

MaxEnvs == 3

MaxClock == 2

MaxBudget == 1

MaxBody == 3

MaxCalls == 1

\* Most pieces a text is put together from.
MaxPieces == 5

\* Most edits made to a source text.
MaxEdits == 1

\* Most arguments of a call expression.
MaxArgs == 2

(***************************************************************************)
(* AST node constructors (core/parser.py)                                  *)
(***************************************************************************)
None == [k |-> "None"]

Program(body) == [k |-> "Program", body |-> body]

FunctionDecl(name, params, body) == [k |-> "FunctionDecl", name |-> name, params |-> params, body |-> body]

ReturnStmt(value) == [k |-> "ReturnStmt", value |-> value]

VarDecl(name, value) == [k |-> "VarDecl", name |-> name, value |-> value]

IfStmt(condition, then_branch, else_branch) == [k |-> "IfStmt", condition |-> condition, then_branch |-> then_branch, else_branch |-> else_branch]

WhileStmt(condition, body) == [k |-> "WhileStmt", condition |-> condition, body |-> body]

ForStmt(iterator, iterable, body) == [k |-> "ForStmt", iterator |-> iterator, iterable |-> iterable, body |-> body]

BreakStmt == [k |-> "BreakStmt"]

ContinueStmt == [k |-> "ContinueStmt"]

Literal(value) == [k |-> "Literal", value |-> value]

Identifier(name) == [k |-> "Identifier", name |-> name]

BinaryOp(left, op, right) == [k |-> "BinaryOp", left |-> left, op |-> op, right |-> right]

UnaryOp(op, operand) == [k |-> "UnaryOp", op |-> op, operand |-> operand]

CallExpr(callee, args) == [k |-> "CallExpr", callee |-> callee, args |-> args]

ArrayExpr(elements) == [k |-> "ArrayExpr", elements |-> elements]

IndexExpr(collection, index) == [k |-> "IndexExpr", collection |-> collection, index |-> index]

(***************************************************************************)
(* Python values                                                           *)
(***************************************************************************)
PyNone == [t |-> "null"]

PyInt(n) == [t |-> "int", n |-> n]

PyBool(b) == [t |-> "bool", b |-> b]

PyStr(s) == [t |-> "str", s |-> s]

PyList(elems) == [t |-> "list", elems |-> elems]

(***************************************************************************)
(* Each specification runs one component; the others stay idle.            *)
(***************************************************************************)
IdlePM ==
    /\ heap = <<>>
    /\ program = 0
    /\ program0 = Program(<<>>)
    /\ passes = <<>>
    /\ p = 0
    /\ pmpc = "idle"
    /\ pidx = 0
    /\ pre = Program(<<>>)
    /\ invoked = <<>>
    /\ lines = <<>>

IdleInterpreter ==
    /\ iprog = Program(<<>>)
    /\ envs = <<>>
    /\ call_stack = <<>>
    /\ exec_count = 0
    /\ profile = <<>>
    /\ out = <<>>
    /\ trace = <<>>
    /\ ipc = "idle"
    /\ itop = 0
    /\ result = [sig |-> "none", val |-> PyNone]

IdleEnvironment == last = [op |-> "none"]

IdleSandbox ==
    /\ clock = 0
    /\ time_limit = 0
    /\ start = 0
    /\ elapsed = 0

\* parse_text has not run.
NotParsed == [ok |-> FALSE, cls |-> "none"]

IdleFrontEnd ==
    /\ text = <<>>
    /\ tokens = <<>>
    /\ parsed = NotParsed

(***************************************************************************)
(* Sequence helpers                                                        *)
(***************************************************************************)
Range(s) == {s[i] : i \in DOMAIN s}

RECURSIVE SeqsUpTo(_, _)
SeqsUpTo(S, n) == IF n = 0 THEN {<<>>} ELSE SeqsUpTo(S, n - 1) \cup {Append(s, x) : s \in {t \in SeqsUpTo(S, n - 1) : Len(t) = n - 1}, x \in S}

(***************************************************************************)
(* The object store.  Program and FunctionDecl objects and the statement   *)
(* objects held directly in a body list are cells of their own; the        *)
(* expression and nested-statement objects below a statement object belong *)
(* to that statement's cell and are copied and rewritten with it.          *)
(***************************************************************************)
ProgramCell(body) == [k |-> "Program", body |-> body]

FunctionCell(name, params, body) == [k |-> "FunctionDecl", name |-> name, params |-> params, body |-> body]

StmtCell(node) == [k |-> "Stmt", node |-> node]

\* Allocate the statement objects of a body list; yields the store and the list of ids.
RECURSIVE StoreBody(_, _, _)
StoreBody(h, stmts, ids) ==
    IF stmts = <<>> THEN [heap |-> h, ids |-> ids]
    ELSE StoreBody(Append(h, StmtCell(Head(stmts))), Tail(stmts), Append(ids, Len(h) + 1))

\* Allocate one item of Program.body.
StoreItem(h, item) ==
    IF item.k = "FunctionDecl"
    THEN LET b == StoreBody(h, item.body, <<>>)
         IN  [heap |-> Append(b.heap, FunctionCell(item.name, item.params, b.ids)), id |-> Len(b.heap) + 1]
    ELSE [heap |-> Append(h, StmtCell(item)), id |-> Len(h) + 1]

RECURSIVE StoreItems(_, _, _)
StoreItems(h, items, ids) ==
    IF items = <<>> THEN [heap |-> h, ids |-> ids]
    ELSE LET r == StoreItem(h, Head(items))
         IN  StoreItems(r.heap, Tail(items), Append(ids, r.id))

\* Build the objects of a Program tree; yields the store and the Program's id.
StoreProgram(h, tree) ==
    LET r == StoreItems(h, tree.body, <<>>)
    IN  [heap |-> Append(r.heap, ProgramCell(r.ids)), id |-> Len(r.heap) + 1]

\* The tree an object denotes.
TreeOfItem(h, id) ==
    IF h[id].k = "FunctionDecl"
    THEN FunctionDecl(h[id].name, h[id].params, [i \in DOMAIN h[id].body |-> h[h[id].body[i]].node])
    ELSE h[id].node

TreeOf(h, id) == Program([i \in DOMAIN h[id].body |-> TreeOfItem(h, h[id].body[i])])

\* The objects reachable from a Program object, itself included.
Reach(h, id) ==
    {id} \cup Range(h[id].body)
         \cup UNION {Range(h[f].body) : f \in {g \in Range(h[id].body) : h[g].k = "FunctionDecl"}}

(***************************************************************************)
(* Generic structural recursion: the loop                                  *)
(*   for field, value in node.__dict__.items(): list -> map, Node -> call  *)
(* that every rewriting pass starts with.                                  *)
(***************************************************************************)
MapList(s, F(_)) == [i \in DOMAIN s |-> F(s[i])]

MapOpt(v, F(_)) == IF v = None THEN v ELSE F(v)

MapKids(n, F(_)) ==
    CASE n.k = "FunctionDecl" -> [n EXCEPT !.body = MapList(@, F)]
      [] n.k = "ReturnStmt"   -> [n EXCEPT !.value = MapOpt(@, F)]
      [] n.k = "VarDecl"      -> [n EXCEPT !.value = MapOpt(@, F)]
      [] n.k = "IfStmt"       -> [n EXCEPT !.condition = F(@), !.then_branch = MapList(@, F), !.else_branch = MapList(@, F)]
      [] n.k = "WhileStmt"    -> [n EXCEPT !.condition = F(@), !.body = MapList(@, F)]
      [] n.k = "ForStmt"      -> [n EXCEPT !.iterable = MapOpt(@, F), !.body = MapList(@, F)]
      [] n.k = "BinaryOp"     -> [n EXCEPT !.left = F(@), !.right = F(@)]
      [] n.k = "UnaryOp"      -> [n EXCEPT !.operand = F(@)]
      [] n.k = "CallExpr"     -> [n EXCEPT !.callee = F(@), !.args = MapList(@, F)]
      [] n.k = "ArrayExpr"    -> [n EXCEPT !.elements = MapList(@, F)]
      [] n.k = "IndexExpr"    -> [n EXCEPT !.collection = F(@), !.index = F(@)]
      [] OTHER                -> n

(***************************************************************************)
(* Python arithmetic on Literal values, as pass_constant_folding applies   *)
(* it (lv + rv, lv < rv, -val, ...).  bool is a subclass of int; a float   *)
(* is kept as a reduced fraction num/den (den > 0), which agrees with      *)
(* IEEE doubles on the quotients the model's small integers produce; the   *)
(* model's strings hold no % conversion.  An operation that raises yields  *)
(* PyRaise.                                                                *)
(***************************************************************************)
PyRaise(cls) == [t |-> "raise", cls |-> cls]

Abs(n) == IF n < 0 THEN 0 - n ELSE n

RECURSIVE Gcd(_, _)
Gcd(a, b) == IF b = 0 THEN a ELSE Gcd(b, a % b)

PyFloat(num, den) == [t |-> "float", num |-> num \div Gcd(Abs(num), den), den |-> den \div Gcd(Abs(num), den)]

IsNumber(v) == v.t \in {"int", "bool", "float"}

IntOf(v) == IF v.t = "bool" THEN (IF v.b THEN 1 ELSE 0) ELSE v.n

\* A number as the fraction n/d, d > 0.
Num(v) == IF v.t = "float" THEN [n |-> v.num, d |-> v.den] ELSE [n |-> IntOf(v), d |-> 1]

\* The number n/d as the float it is, or as the int n (d = 1) when both operands were ints.
PyNumber(n, d, a, b) == IF a.t = "float" \/ b.t = "float" THEN PyFloat(n, d) ELSE PyInt(n)

\* floor(n / d) for d # 0.
FloorDiv(n, d) == IF d > 0 THEN n \div d ELSE (0 - n) \div (0 - d)

\* The model's strings in Python's (lexicographic) order.
StrOrder == <<"", "a", "aa", "ab", "b">>

StrLess(s, u) == (CHOOSE i \in DOMAIN StrOrder : StrOrder[i] = s) < (CHOOSE i \in DOMAIN StrOrder : StrOrder[i] = u)

RECURSIVE StrRepeat(_, _)
StrRepeat(s, n) == IF n <= 0 THEN "" ELSE s \o StrRepeat(s, n - 1)

py_add(a, b) ==
    IF IsNumber(a) /\ IsNumber(b) THEN PyNumber(Num(a).n * Num(b).d + Num(b).n * Num(a).d, Num(a).d * Num(b).d, a, b)
    ELSE IF a.t = "str" /\ b.t = "str" THEN PyStr(a.s \o b.s)
    ELSE PyRaise("TypeError")

py_sub(a, b) ==
    IF IsNumber(a) /\ IsNumber(b) THEN PyNumber(Num(a).n * Num(b).d - Num(b).n * Num(a).d, Num(a).d * Num(b).d, a, b)
    ELSE PyRaise("TypeError")

py_mul(a, b) ==
    IF IsNumber(a) /\ IsNumber(b) THEN PyNumber(Num(a).n * Num(b).n, Num(a).d * Num(b).d, a, b)
    ELSE IF a.t = "str" /\ b.t \in {"int", "bool"} THEN PyStr(StrRepeat(a.s, IntOf(b)))
    ELSE IF b.t = "str" /\ a.t \in {"int", "bool"} THEN PyStr(StrRepeat(b.s, IntOf(a)))
    ELSE PyRaise("TypeError")

py_truediv(a, b) ==
    IF ~(IsNumber(a) /\ IsNumber(b)) THEN PyRaise("TypeError")
    ELSE IF Num(b).n = 0 THEN PyRaise("ZeroDivisionError")
    ELSE IF Num(b).n > 0 THEN PyFloat(Num(a).n * Num(b).d, Num(a).d * Num(b).n)
    ELSE PyFloat(0 - Num(a).n * Num(b).d, 0 - Num(a).d * Num(b).n)

\* a % b = a - b * floor(a / b)
py_mod(a, b) ==
    IF ~(IsNumber(a) /\ IsNumber(b)) THEN PyRaise("TypeError")
    ELSE IF Num(b).n = 0 THEN PyRaise("ZeroDivisionError")
    ELSE PyNumber(Num(a).n * Num(b).d - Num(b).n * Num(a).d * FloorDiv(Num(a).n * Num(b).d, Num(a).d * Num(b).n),
                  Num(a).d * Num(b).d, a, b)

py_eq(a, b) ==
    IF IsNumber(a) /\ IsNumber(b) THEN Num(a).n * Num(b).d = Num(b).n * Num(a).d
    ELSE IF a.t = "str" /\ b.t = "str" THEN a.s = b.s
    ELSE a.t = "null" /\ b.t = "null"

py_lt(a, b) ==
    IF IsNumber(a) /\ IsNumber(b) THEN PyBool(Num(a).n * Num(b).d < Num(b).n * Num(a).d)
    ELSE IF a.t = "str" /\ b.t = "str" THEN PyBool(StrLess(a.s, b.s))
    ELSE PyRaise("TypeError")

py_le(a, b) ==
    IF IsNumber(a) /\ IsNumber(b) THEN PyBool(Num(a).n * Num(b).d <= Num(b).n * Num(a).d)
    ELSE IF a.t = "str" /\ b.t = "str" THEN PyBool(a.s = b.s \/ StrLess(a.s, b.s))
    ELSE PyRaise("TypeError")

py_neg(v) ==
    IF v.t = "float" THEN PyFloat(0 - v.num, v.den)
    ELSE IF IsNumber(v) THEN PyInt(0 - IntOf(v))
    ELSE PyRaise("TypeError")

py_pos(v) ==
    IF v.t = "float" THEN v
    ELSE IF IsNumber(v) THEN PyInt(IntOf(v))
    ELSE PyRaise("TypeError")

\* bool(v) for the values a Literal holds.
py_bool(v) ==
    CASE v.t = "null"  -> FALSE
      [] v.t = "bool"  -> v.b
      [] v.t = "int"   -> v.n # 0
      [] v.t = "float" -> v.num # 0
      [] v.t = "str"   -> v.s # ""

(***************************************************************************)
(* Passes (core/optimizer.py).  A pass maps a store and the id of the      *)
(* Program it is given to [heap, ret, raised]: the store it leaves, the id *)
(* it returns, and whether it raised instead of returning.                 *)
(***************************************************************************)
Returned(h, id) == [heap |-> h, ret |-> id, raised |-> FALSE]

Raised(h) == [heap |-> h, ret |-> 0, raised |-> TRUE]

\* The loop `for item in program.body: if isinstance(item, FunctionDecl): item.body = G(item.body)`,
\* G given as an operator from a store and a list of ids to [heap, ids].
RewriteBodies(h, items, G(_, _)) ==
    LET after[i \in 0..Len(items)] ==
            IF i = 0 THEN h
            ELSE LET hh == after[i - 1]
                     f  == items[i]
                 IN  IF hh[f].k = "FunctionDecl"
                     THEN LET r == G(hh, hh[f].body) IN [r.heap EXCEPT ![f].body = r.ids]
                     ELSE hh
    IN  after[Len(items)]

\* Mutant of dce_block: the ReturnStmt that ends the block is dropped with what follows it.
dce_block_drops_return(h, block, new_block, terminated) ==
    [heap |-> h,
     ids  |-> IF \A i \in DOMAIN block : h[block[i]].node.k # "ReturnStmt" THEN block
              ELSE SubSeq(block, 1, (CHOOSE i \in DOMAIN block : /\ h[block[i]].node.k = "ReturnStmt"
                                                                  /\ \A j \in 1..(i - 1) : h[block[j]].node.k # "ReturnStmt") - 1)]

\* dce_block: keep the statements up to and including the first ReturnStmt.
RECURSIVE dce_block(_, _, _, _)
dce_block(h, block, new_block, terminated) ==
    IF block = <<>> THEN [heap |-> h, ids |-> new_block]
    ELSE IF terminated THEN dce_block(h, Tail(block), new_block, terminated)
    ELSE dce_block(h, Tail(block), Append(new_block, Head(block)), h[Head(block)].node.k = "ReturnStmt")

pass_dead_code_elimination(h, prog) ==
    Returned(RewriteBodies(h, h[prog].body, LAMBDA hh, b : dce_block(hh, b, <<>>, FALSE)), prog)

\* replace of propagate_in_block: substitute the recorded copies into the identifiers of a statement.
RECURSIVE cp_replace(_, _)
cp_replace(node, mapping) ==
    IF node.k = "Identifier" /\ node.name \in DOMAIN mapping
    THEN mapping[node.name]
    ELSE MapKids(node, LAMBDA c : cp_replace(c, mapping))

\* Whether propagate_in_block records the statement as a copy.
IsCopyDecl(node) ==
    /\ node.k = "VarDecl"
    /\ node.value # None
    /\ node.value.k \in {"Identifier", "Literal"}

RECURSIVE propagate_in_block(_, _, _, _)
propagate_in_block(h, block, mapping, new_block) ==
    IF block = <<>> THEN [heap |-> h, ids |-> new_block]
    ELSE LET stmt == h[Head(block)].node
         IN  IF IsCopyDecl(stmt)
             THEN propagate_in_block(h, Tail(block), (stmt.name :> stmt.value) @@ mapping, Append(new_block, Head(block)))
             ELSE propagate_in_block(Append(h, StmtCell(cp_replace(stmt, mapping))), Tail(block), mapping,
                                     Append(new_block, Len(h) + 1))

pass_copy_propagation(h, prog) ==
    Returned(RewriteBodies(h, h[prog].body, LAMBDA hh, b : propagate_in_block(hh, b, <<>>, <<>>)), prog)

\* stmt' = f(stmt) for an f that first rewrites below the statement object in place (Kids: the
\* tree the object then holds) and then yields the object itself or another one in its place
\* (Here, from that tree); r is the store and the list built so far.
RewriteStmt(r, id, Kids(_), Here(_)) ==
    IF Here(Kids(r.heap[id].node)) = Kids(r.heap[id].node)
    THEN [heap |-> [r.heap EXCEPT ![id].node = Kids(@)], ids |-> Append(r.ids, id)]
    ELSE [heap |-> Append([r.heap EXCEPT ![id].node = Kids(@)], StmtCell(Here(Kids(r.heap[id].node)))),
          ids  |-> Append(r.ids, Len(r.heap) + 1)]

\* item.body = [f(stmt) for stmt in item.body]
RewriteStmts(h, block, Kids(_), Here(_)) ==
    LET after[i \in 0..Len(block)] ==
            IF i = 0 THEN [heap |-> h, ids |-> <<>>]
            ELSE RewriteStmt(after[i - 1], block[i], Kids, Here)
    IN  after[Len(block)]

\* Mutant of FoldOps: the comparisons are left out.
FoldOps_arithmetic == {"+", "-", "*", "/", "%"}

\* The operators pass_constant_folding evaluates.
FoldOps == {"+", "-", "*", "/", "%", "==", "!=", "<", ">", "<=", ">="}

\* res of fold for BinaryOp(Literal(lv), op, Literal(rv)); PyRaise when an exception leaves it res-less.
fold_binary(op, lv, rv) ==
    CASE op = "+"  -> py_add(lv, rv)
      [] op = "-"  -> py_sub(lv, rv)
      [] op = "*"  -> py_mul(lv, rv)
      [] op = "/"  -> py_truediv(lv, rv)
      [] op = "%"  -> py_mod(lv, rv)
      [] op = "==" -> PyBool(py_eq(lv, rv))
      [] op = "!=" -> PyBool(~py_eq(lv, rv))
      [] op = "<"  -> py_lt(lv, rv)
      [] op = ">"  -> py_lt(rv, lv)
      [] op = "<=" -> py_le(lv, rv)
      [] op = ">=" -> py_le(rv, lv)

\* The value of the Literal fold builds for UnaryOp(op, Literal(val)).
fold_unary(op, val) ==
    CASE op = "-" -> py_neg(val)
      [] op = "+" -> py_pos(val)
      [] op = "!" -> PyBool(~py_bool(val))

\* `now fold this node`: the part of fold after the children are folded.
fold_node(node) ==
    IF /\ node.k = "BinaryOp" /\ node.left.k = "Literal" /\ node.right.k = "Literal"
       /\ node.op \in FoldOps
       /\ fold_binary(node.op, node.left.value, node.right.value).t # "raise"
    THEN Literal(fold_binary(node.op, node.left.value, node.right.value))
    ELSE IF /\ node.k = "UnaryOp" /\ node.operand.k = "Literal"
            /\ node.op \in {"-", "+", "!"}
            /\ fold_unary(node.op, node.operand.value).t # "raise"
    THEN Literal(fold_unary(node.op, node.operand.value))
    ELSE node

RECURSIVE fold(_)

\* Mutant of fold: the node is folded before its children are.
fold_top_down(node) == MapKids(fold_node(node), fold)

fold(node) == fold_node(MapKids(node, fold))

pass_constant_folding(h, prog) ==
    Returned(RewriteBodies(h, h[prog].body,
                 LAMBDA hh, b : RewriteStmts(hh, b, LAMBDA n : MapKids(n, fold), fold_node)), prog)

\* isinstance(X, Literal) and X.value == k, with Python's == (False == 0, 1.0 == 1).
LiteralEquals(node, k) == node.k = "Literal" /\ IsNumber(node.value) /\ Num(node.value).n = k * Num(node.value).d

\* Mutant of simplify_node: the literal is only looked for on the right.
simplify_node_right_only(node) ==
    IF node.k = "BinaryOp"
    THEN CASE node.op = "*" /\ LiteralEquals(node.right, 0) -> Literal(PyInt(0))
           [] node.op = "*" /\ LiteralEquals(node.right, 1) -> node.left
           [] node.op = "+" /\ LiteralEquals(node.right, 0) -> node.left
           [] node.op = "-" /\ LiteralEquals(node.right, 0) -> node.left
           [] node.op = "/" /\ LiteralEquals(node.right, 1) -> node.left
           [] OTHER -> node
    ELSE IF node.k = "UnaryOp" /\ node.op = "-" /\ node.operand.k = "UnaryOp" /\ node.operand.op = "-"
    THEN node.operand.operand
    ELSE node

\* The part of simplify after the children are simplified.
simplify_node(node) ==
    IF node.k = "BinaryOp"
    THEN CASE node.op = "*" /\ LiteralEquals(node.left, 0)  -> Literal(PyInt(0))
           [] node.op = "*" /\ LiteralEquals(node.right, 0) -> Literal(PyInt(0))
           [] node.op = "*" /\ LiteralEquals(node.right, 1) -> node.left
           [] node.op = "*" /\ LiteralEquals(node.left, 1)  -> node.right
           [] node.op = "+" /\ LiteralEquals(node.right, 0) -> node.left
           [] node.op = "+" /\ LiteralEquals(node.left, 0)  -> node.right
           [] node.op = "-" /\ LiteralEquals(node.right, 0) -> node.left
           [] node.op = "/" /\ LiteralEquals(node.right, 1) -> node.left
           [] OTHER -> node
    ELSE IF node.k = "UnaryOp" /\ node.op = "-" /\ node.operand.k = "UnaryOp" /\ node.operand.op = "-"
    THEN node.operand.operand
    ELSE node

RECURSIVE simplify(_)
simplify(node) == simplify_node(MapKids(node, simplify))

pass_algebraic_simplify(h, prog) ==
    Returned(RewriteBodies(h, h[prog].body,
                 LAMBDA hh, b : RewriteStmts(hh, b, LAMBDA n : MapKids(n, simplify), simplify_node)), prog)

\* The child nodes the loop over node.__dict__ visits, in field order.
OptKid(v) == IF v = None THEN <<>> ELSE <<v>>

Kids(n) ==
    CASE n.k = "FunctionDecl" -> n.body
      [] n.k = "ReturnStmt"   -> OptKid(n.value)
      [] n.k = "VarDecl"      -> OptKid(n.value)
      [] n.k = "IfStmt"       -> <<n.condition>> \o n.then_branch \o n.else_branch
      [] n.k = "WhileStmt"    -> <<n.condition>> \o n.body
      [] n.k = "ForStmt"      -> OptKid(n.iterable) \o n.body
      [] n.k = "BinaryOp"     -> <<n.left, n.right>>
      [] n.k = "UnaryOp"      -> <<n.operand>>
      [] n.k = "CallExpr"     -> <<n.callee>> \o n.args
      [] n.k = "ArrayExpr"    -> n.elements
      [] n.k = "IndexExpr"    -> <<n.collection, n.index>>
      [] OTHER                -> <<>>

\* collect_reads: the names of the Identifier nodes of a tree.
RECURSIVE collect_reads(_)
collect_reads(node) ==
    IF node.k = "Identifier" THEN {node.name}
    ELSE UNION {collect_reads(Kids(node)[i]) : i \in DOMAIN Kids(node)}

\* A statement analyze_and_remove records in assigns.
IsStore(node) == node.k = "VarDecl" /\ node.value # None

\* analyze_and_remove: reads are collected from the statements that are not stores, over the
\* whole block; a VarDecl of a stored name that is not among them is dropped.
analyze_and_remove(h, block) ==
    LET assigns == {h[block[i]].node.name : i \in {j \in DOMAIN block : IsStore(h[block[j]].node)}}
        reads   == UNION {collect_reads(h[block[i]].node) : i \in {j \in DOMAIN block : ~IsStore(h[block[j]].node)}}
    IN  [heap |-> h,
         ids  |-> SelectSeq(block, LAMBDA id : ~(h[id].node.k = "VarDecl" /\ h[id].node.name \in assigns
                                                  /\ h[id].node.name \notin reads))]

pass_dead_store_elimination(h, prog) ==
    Returned(RewriteBodies(h, h[prog].body, analyze_and_remove), prog)

\* Whether trivial_inlining marks a FunctionDecl object for inlining.
IsTrivial(h, f) ==
    /\ h[f].k = "FunctionDecl"
    /\ Len(h[f].body) = 1
    /\ h[h[f].body[1]].node.k = "ReturnStmt"
    /\ h[h[f].body[1]].node.value.k \in {"Literal", "Identifier"}

\* inline_map: name -> returned node; the last marked declaration of a name wins.
inline_map(h, prog) ==
    [name \in {h[f].name : f \in {g \in Range(h[prog].body) : IsTrivial(h, g)}} |->
        LET i == CHOOSE i \in DOMAIN h[prog].body :
                    /\ IsTrivial(h, h[prog].body[i]) /\ h[h[prog].body[i]].name = name
                    /\ \A j \in DOMAIN h[prog].body :
                          (IsTrivial(h, h[prog].body[j]) /\ h[h[prog].body[j]].name = name) => j <= i
        IN  h[h[h[prog].body[i]].body[1]].node.value]

\* The test of replace: a call without arguments of a marked name.
IsInlinedCall(node, map) ==
    /\ node.k = "CallExpr"
    /\ node.callee.k = "Identifier"
    /\ node.callee.name \in DOMAIN map
    /\ node.args = <<>>

\* replace of trivial_inlining.
RECURSIVE inline_replace(_, _)
inline_replace(node, map) ==
    IF IsInlinedCall(node, map) THEN map[node.callee.name]
    ELSE MapKids(node, LAMBDA c : inline_replace(c, map))

inline_kids(node, map) == IF IsInlinedCall(node, map) THEN node ELSE inline_replace(node, map)

inline_here(node, map) == IF IsInlinedCall(node, map) THEN map[node.callee.name] ELSE node

pass_trivial_inlining(h, prog) ==
    Returned(RewriteBodies(h, h[prog].body,
                 LAMBDA hh, b : RewriteStmts(hh, b, LAMBDA n : inline_kids(n, inline_map(h, prog)),
                                                    LAMBDA n : inline_here(n, inline_map(h, prog)))), prog)

\* The test of simplify_block: an if without else whose then-branch is exactly one if.
IsNestedIf(stmt) ==
    /\ stmt.k = "IfStmt"
    /\ stmt.else_branch = <<>>
    /\ Len(stmt.then_branch) = 1
    /\ stmt.then_branch[1].k = "IfStmt"

\* new_if of simplify_block: the inner if's else_branch is not carried over.
FlattenIf(stmt) ==
    IfStmt(BinaryOp(stmt.condition, "&&", stmt.then_branch[1].condition), stmt.then_branch[1].then_branch, <<>>)

\* The list-valued fields of a node, the only ones simplify_block recurses into.
MapListKids(n, F(_)) ==
    CASE n.k = "FunctionDecl" -> [n EXCEPT !.body = MapList(@, F)]
      [] n.k = "IfStmt"       -> [n EXCEPT !.then_branch = MapList(@, F), !.else_branch = MapList(@, F)]
      [] n.k = "WhileStmt"    -> [n EXCEPT !.body = MapList(@, F)]
      [] n.k = "ForStmt"      -> [n EXCEPT !.body = MapList(@, F)]
      [] n.k = "CallExpr"     -> [n EXCEPT !.args = MapList(@, F)]
      [] n.k = "ArrayExpr"    -> [n EXCEPT !.elements = MapList(@, F)]
      [] OTHER                -> n

RECURSIVE simplify_stmt(_)
RECURSIVE simplify_element(_)

\* simplify_block([stmt])[0]: the flattened if, or stmt with the elements of its lists simplified.
simplify_stmt(stmt) ==
    IF IsNestedIf(stmt) THEN FlattenIf(stmt) ELSE MapListKids(stmt, simplify_element)

\* value[i] = simplify_block([it])[0] if isinstance(simplify_block([it]), list) and
\* simplify_block([it]) else it: three calls on the same object it, the third one's result
\* stored; a call on a nested if leaves it as it is, any other call rewrites it in place.
simplify_element(it) ==
    IF IsNestedIf(it) THEN FlattenIf(it) ELSE simplify_stmt(simplify_stmt(simplify_stmt(it)))

simplify_kids(stmt) == IF IsNestedIf(stmt) THEN stmt ELSE simplify_stmt(stmt)

simplify_here(stmt) == IF IsNestedIf(stmt) THEN FlattenIf(stmt) ELSE stmt

pass_control_flow_simplify(h, prog) ==
    Returned(RewriteBodies(h, h[prog].body, LAMBDA hh, b : RewriteStmts(hh, b, simplify_kids, simplify_here)), prog)

\* impure_calls of purity_analysis.
impure_calls == {"print", "input", "cyon_print", "cyon_input"}

\* check of function_is_pure: no CallExpr of the tree calls a name of impure_calls directly.
RECURSIVE purity_check(_)
purity_check(node) ==
    /\ ~(node.k = "CallExpr" /\ node.callee.k = "Identifier" /\ node.callee.name \in impure_calls)
    /\ \A i \in DOMAIN Kids(node) : purity_check(Kids(node)[i])

\* function_is_pure: check on a FunctionDecl built from fn's name, params and body.
function_is_pure(fn) == purity_check(FunctionDecl(fn.name, fn.params, fn.body))

\* The lines purity_analysis logs: one report per FunctionDecl of program.body, in order.
purity_lines(tree) ==
    LET fns == SelectSeq(tree.body, LAMBDA item : item.k = "FunctionDecl")
    IN  << [msg |-> "purity_analysis: starting", arg |-> PyNone] >>
        \o [i \in DOMAIN fns |-> [msg |-> "purity: function", arg |-> [name |-> fns[i].name, pure |-> function_is_pure(fns[i])]]]
        \o << [msg |-> "purity_analysis: finished", arg |-> PyNone] >>

\* purity_analysis fills a local dict and writes log lines; the tree is only read.
pass_purity_analysis(h, prog) == Returned(h, prog)

\* A registered pass that raises before touching the tree.
user_pass_raises(h, prog) == Raised(h)

\* A registered pass interrupted by an exception in the middle of its loop over program.body:
\* the first item has been rewritten in place (as dead_code_elimination does), the rest not.
user_pass_rewrites_then_raises(h, prog) ==
    Raised(RewriteBodies(h, SubSeq(h[prog].body, 1, 1), LAMBDA hh, b : dce_block(hh, b, <<>>, FALSE)))

\* A registered pass that returns a new Program object over the same items: Program(body=list(p.body)).
user_pass_returns_new(h, prog) == Returned(Append(h, ProgramCell(h[prog].body)), Len(h) + 1)

\* What the pass writes to the logger, for the pass whose log is its result (the rewriting
\* passes' notes on their rewrites are not kept).
PassLog(fn, h, prog) == IF fn = "pass_purity_analysis" THEN purity_lines(TreeOf(h, prog)) ELSE <<>>

\* ps.fn(p, self.logger)
ApplyPass(fn, h, prog) ==
    CASE fn = "pass_purity_analysis"            -> pass_purity_analysis(h, prog)
      [] fn = "pass_dead_code_elimination"      -> pass_dead_code_elimination(h, prog)
      [] fn = "pass_copy_propagation"           -> pass_copy_propagation(h, prog)
      [] fn = "pass_constant_folding"           -> pass_constant_folding(h, prog)
      [] fn = "pass_algebraic_simplify"         -> pass_algebraic_simplify(h, prog)
      [] fn = "pass_dead_store_elimination"     -> pass_dead_store_elimination(h, prog)
      [] fn = "pass_trivial_inlining"           -> pass_trivial_inlining(h, prog)
      [] fn = "pass_control_flow_simplify"      -> pass_control_flow_simplify(h, prog)
      [] fn = "user_pass_raises"                -> user_pass_raises(h, prog)
      [] fn = "user_pass_rewrites_then_raises"  -> user_pass_rewrites_then_raises(h, prog)
      [] fn = "user_pass_returns_new"           -> user_pass_returns_new(h, prog)

(***************************************************************************)
(* PassManager (core/optimizer.py)                                         *)
(***************************************************************************)
Pass(name, fn, enabled) == [name |-> name, fn |-> fn, enabled |-> enabled]

\* Mutant of clone_ast: the Program itself instead of a copy.
clone_ast_alias(h, id) == [heap |-> h, id |-> id]

\* copy.deepcopy of a Program: fresh objects for everything reachable from it.
clone_ast(h, id) == StoreProgram(h, TreeOf(h, id))

Log(msg, arg) == [msg |-> msg, arg |-> arg]

\* p = clone_ast(program); log "Optimizer: Starting with N passes"
RunClone ==
    /\ pmpc = "call"
    /\ LET c == clone_ast(heap, program)
       IN  /\ heap' = c.heap
           /\ p' = c.id
           /\ pre' = TreeOf(c.heap, c.id)
    /\ lines' = Append(lines, Log("Optimizer: Starting with", PyInt(Len(passes))))
    /\ pmpc' = "loop"
    /\ pidx' = 1
    /\ UNCHANGED <<program, program0, passes, invoked>>
    /\ UNCHANGED <<itVars, last, sbVars, feVars>>

\* Loop iteration for a disabled pass: log and continue.
RunSkip ==
    /\ pmpc = "loop"
    /\ pidx <= Len(passes)
    /\ ~passes[pidx].enabled
    /\ lines' = Append(lines, Log("Skipping disabled pass:", PyStr(passes[pidx].name)))
    /\ pidx' = pidx + 1
    /\ UNCHANGED <<heap, program, program0, passes, p, pmpc, pre, invoked>>
    /\ UNCHANGED <<itVars, last, sbVars, feVars>>

\* Mutant of RunPass: an exception raised by the pass leaves run.
RunPass_escalates ==
    /\ pmpc = "loop"
    /\ pidx <= Len(passes)
    /\ passes[pidx].enabled
    /\ LET ps == passes[pidx]
           r  == ApplyPass(ps.fn, heap, p)
       IN  /\ heap' = r.heap
           /\ p' = IF r.raised THEN p ELSE r.ret
           /\ invoked' = Append(invoked, [name |-> ps.name, raised |-> r.raised])
           /\ lines' = Append(lines, Log("Running pass:", PyStr(ps.name))) \o PassLog(ps.fn, heap, p)
           /\ pmpc' = IF r.raised THEN "done" ELSE pmpc
           /\ pidx' = IF r.raised THEN pidx ELSE pidx + 1
    /\ pre' = TreeOf(heap, p)
    /\ UNCHANGED <<program, program0, passes>>
    /\ UNCHANGED <<itVars, last, sbVars, feVars>>

\* Loop iteration for an enabled pass: try: p = ps.fn(p, logger) except Exception: log.
RunPass ==
    /\ pmpc = "loop"
    /\ pidx <= Len(passes)
    /\ passes[pidx].enabled
    /\ LET ps == passes[pidx]
           r  == ApplyPass(ps.fn, heap, p)
       IN  /\ heap' = r.heap
           /\ p' = IF r.raised THEN p ELSE r.ret
           /\ invoked' = Append(invoked, [name |-> ps.name, raised |-> r.raised])
           /\ lines' = lines \o <<Log("Running pass:", PyStr(ps.name))>> \o PassLog(ps.fn, heap, p)
                              \o (IF r.raised THEN <<Log("Pass failed:", PyStr(ps.name))>> ELSE <<>>)
    /\ pre' = TreeOf(heap, p)
    /\ pidx' = pidx + 1
    /\ UNCHANGED <<program, program0, passes, pmpc>>
    /\ UNCHANGED <<itVars, last, sbVars, feVars>>

\* After the loop: log "Optimizer: finished"; return p.
RunReturn ==
    /\ pmpc = "loop"
    /\ pidx > Len(passes)
    /\ lines' = Append(lines, Log("Optimizer: finished", PyNone))
    /\ pmpc' = "done"
    /\ UNCHANGED <<heap, program, program0, passes, p, pidx, pre, invoked>>
    /\ UNCHANGED <<itVars, last, sbVars, feVars>>

\* default_pass_manager: the registered passes, in registration order.
default_pass_manager ==
    << Pass("purity_analysis", "pass_purity_analysis", TRUE),
       Pass("constant_folding", "pass_constant_folding", TRUE),
       Pass("algebraic_simplify", "pass_algebraic_simplify", TRUE),
       Pass("dead_code_elimination", "pass_dead_code_elimination", TRUE),
       Pass("copy_propagation", "pass_copy_propagation", TRUE),
       Pass("dead_store_elimination", "pass_dead_store_elimination", TRUE),
       Pass("cse", "pass_cse", FALSE),
       Pass("trivial_inlining", "pass_trivial_inlining", TRUE),
       Pass("tail_call_elimination", "pass_tail_call_elimination", FALSE),
       Pass("loop_unroll", "pass_loop_unroll", FALSE),
       Pass("control_flow_simplify", "pass_control_flow_simplify", TRUE) >>

(***************************************************************************)
(* Inputs of the optimizer model                                           *)
(***************************************************************************)
Call0(name) == CallExpr(Identifier(name), <<>>)

PrintCall(e) == CallExpr(Identifier("print"), <<e>>)

IntLit(n) == Literal(PyInt(n))

\* func main() { return 1; print(2); }
OptProgram1 ==
    Program(<< FunctionDecl("main", <<>>, << ReturnStmt(IntLit(1)), PrintCall(IntLit(2)) >>) >>)

\* func f() { let a = b; return a; print(a) }  func main() { return f(); print(3) }
OptProgram2 ==
    Program(<< FunctionDecl("f", <<>>, << VarDecl("a", Identifier("b")), ReturnStmt(Identifier("a")), PrintCall(Identifier("a")) >>),
               FunctionDecl("main", <<>>, << ReturnStmt(Call0("f")), PrintCall(IntLit(3)) >>) >>)

\* let g = 1   func main() { let x = 1 + 2 * 3; return x; }
OptProgram3 ==
    Program(<< VarDecl("g", IntLit(1)),
               FunctionDecl("main", <<>>, << VarDecl("x", BinaryOp(IntLit(1), "+", BinaryOp(IntLit(2), "*", IntLit(3)))),
                                             ReturnStmt(Identifier("x")) >>) >>)

\* func k() { return 5 }
\* func main() { let u = 1; let x = (1 + 2) * 1; if a { if b { print(k()) } }; return x + 0 }
OptProgram4 ==
    Program(<< FunctionDecl("k", <<>>, << ReturnStmt(IntLit(5)) >>),
               FunctionDecl("main", <<>>,
                   << VarDecl("u", IntLit(1)),
                      VarDecl("x", BinaryOp(BinaryOp(IntLit(1), "+", IntLit(2)), "*", IntLit(1))),
                      IfStmt(Identifier("a"), << IfStmt(Identifier("b"), << PrintCall(Call0("k")) >>, <<>>) >>, <<>>),
                      ReturnStmt(BinaryOp(Identifier("x"), "+", IntLit(0))) >>) >>)

OptPrograms == {OptProgram1, OptProgram2, OptProgram3, OptProgram4}

PassFns == {"pass_purity_analysis", "pass_dead_code_elimination", "pass_copy_propagation",
            "user_pass_raises", "user_pass_rewrites_then_raises", "user_pass_returns_new"}

PassPool == {Pass(fn, fn, en) : fn \in PassFns, en \in BOOLEAN}

\* The lists of passes a PassManager is run with: up to MaxPasses registered on an empty
\* PassManager() or on top of default_pass_manager().
PassLists == SeqsUpTo(PassPool, MaxPasses) \cup {default_pass_manager \o s : s \in SeqsUpTo(PassPool, MaxPasses)}

InitPM ==
    /\ \E tree \in OptPrograms :
          LET s == StoreProgram(<<>>, tree)
          IN  /\ heap = s.heap
              /\ program = s.id
              /\ program0 = tree
    /\ passes \in PassLists
    /\ p = 0
    /\ pmpc = "call"
    /\ pidx = 0
    /\ pre = Program(<<>>)
    /\ invoked = <<>>
    /\ lines = <<>>
    /\ IdleInterpreter
    /\ IdleEnvironment
    /\ IdleSandbox
    /\ IdleFrontEnd

NextPM == RunClone \/ RunSkip \/ RunPass \/ RunReturn

SpecPM == InitPM /\ [][NextPM]_vars

Spec == SpecPM

(***************************************************************************)
(* Properties of PassManager.run                                           *)
(***************************************************************************)
InvokedNames == [i \in DOMAIN invoked |-> invoked[i].name]

EnabledNames(ps) == LET en == SelectSeq(ps, LAMBDA x : x.enabled) IN [i \in DOMAIN en |-> en[i].name]

LastRaised == invoked # <<>> /\ invoked[Len(invoked)].raised

\* C1: once run has been entered, the tree of the caller's program is the tree it had at the call,
\* and no object reachable from run's p (the program it returns) is reachable from the caller's program.
RunNeverMutatesCallerProgram ==
    pmpc # "call" =>
        /\ TreeOf(heap, program) = program0
        /\ Reach(heap, program) \cap Reach(heap, p) = {}

\* C1 witness: run has returned a tree that differs from the caller's, and a pass raised on the way.
RunRewroteCloneWitness ==
    /\ pmpc = "done"
    /\ TreeOf(heap, p) # program0
    /\ \E i \in DOMAIN invoked : invoked[i].raised

\* C2 (as claimed): after a pass raised, p denotes the tree it denoted before that pass started.
FailedPassLeavesNoRewrite == LastRaised => TreeOf(heap, p) = pre

\* The registration order of default_pass_manager, by pass name.
DefaultOrder ==
    << "purity_analysis", "constant_folding", "algebraic_simplify", "dead_code_elimination", "copy_propagation",
       "dead_store_elimination", "cse", "trivial_inlining", "tail_call_elimination", "loop_unroll",
       "control_flow_simplify" >>

OnDefaultManager == Len(passes) >= 11 /\ SubSeq(passes, 1, 11) = default_pass_manager

\* C3: the calls made so far are exactly the enabled passes among those the loop has passed, in list
\* order, each once; run ends only after the whole list, whatever raised; and on a default manager
\* the registered names are in the default order, exactly cse, tail_call_elimination and
\* loop_unroll are disabled, and the first calls of a finished run are the eight others in order.
EnabledPassesInvokedInOrder ==
    /\ InvokedNames = EnabledNames(SubSeq(passes, 1, pidx - 1))
    /\ pmpc = "done" => pidx = Len(passes) + 1
    /\ OnDefaultManager =>
          /\ [i \in 1..11 |-> passes[i].name] = DefaultOrder
          /\ {passes[i].name : i \in {j \in 1..11 : ~passes[j].enabled}} = {"cse", "tail_call_elimination", "loop_unroll"}
          /\ pmpc = "done" =>
                SubSeq(InvokedNames, 1, 8) =
                    << "purity_analysis", "constant_folding", "algebraic_simplify", "dead_code_elimination",
                       "copy_propagation", "dead_store_elimination", "trivial_inlining", "control_flow_simplify" >>

\* C3 witness: a run on a default manager with two more passes registered has finished, and a pass
\* was called after an earlier one had raised.
LaterPassRunAfterFailureWitness ==
    /\ pmpc = "done"
    /\ OnDefaultManager
    /\ Len(invoked) = 10
    /\ invoked[9].raised

(***************************************************************************)
(* A pass called on its own, pass(program, logger), on a program as the    *)
(* parser builds it: a top-level let, five functions around main, and main *)
(* with a body of up to MaxBody statements, one control-flow or call       *)
(* statement, or the return of one expression.                             *)
(***************************************************************************)
\* func k() { return 5 }
KFive == FunctionDecl("k", <<>>, << ReturnStmt(IntLit(5)) >>)

\* func g(a) { return a }
GParam == FunctionDecl("g", <<"a">>, << ReturnStmt(Identifier("a")) >>)

\* func h() { print(1) }
HPrints == FunctionDecl("h", <<>>, << PrintCall(IntLit(1)) >>)

\* func q() { h() }
QCallsH == FunctionDecl("q", <<>>, << Call0("h") >>)

\* func r() { return a + 1  print(a) }
RReadsA == FunctionDecl("r", <<>>, << ReturnStmt(BinaryOp(Identifier("a"), "+", IntLit(1))), PrintCall(Identifier("a")) >>)

\* let a = b | let a = k() | let c = a | print(a) | return a + 0 | let b = a + 1 |
\* if c { print(a)  let a = 2 }
LetStmts ==
    { VarDecl("a", Identifier("b")), VarDecl("a", Call0("k")), VarDecl("c", Identifier("a")),
      PrintCall(Identifier("a")), ReturnStmt(BinaryOp(Identifier("a"), "+", IntLit(0))),
      VarDecl("b", BinaryOp(Identifier("a"), "+", IntLit(1))),
      IfStmt(Identifier("c"), << PrintCall(Identifier("a")), VarDecl("a", IntLit(2)) >>, <<>>) }

\* if <name> { then } [else { else }]
If(name, then_branch, else_branch) == IfStmt(Identifier(name), then_branch, else_branch)

\* The control-flow statements: ifs nested with and without else branches, alone, under a while
\* and under an else, and a return inside a branch.
IfShapes ==
    { If("a", << If("b", << PrintCall(IntLit(1)) >>, <<>>) >>, <<>>),
      If("a", << If("b", << PrintCall(IntLit(1)) >>, << PrintCall(IntLit(2)) >>) >>, <<>>),
      If("a", << If("b", << PrintCall(IntLit(1)) >>, <<>>) >>, << PrintCall(IntLit(2)) >>),
      If("a", << If("b", << PrintCall(IntLit(1)) >>, <<>>), PrintCall(IntLit(2)) >>, <<>>),
      If("a", << PrintCall(IntLit(1)) >>, <<>>),
      If("a", << If("b", << If("c", << PrintCall(IntLit(1)) >>, <<>>) >>, <<>>) >>, <<>>),
      If("a", << If("b", << If("c", << PrintCall(IntLit(1)) >>, << PrintCall(IntLit(2)) >>) >>, <<>>) >>, <<>>),
      WhileStmt(Identifier("a"), << If("a", << If("b", << PrintCall(IntLit(1)) >>, <<>>) >>, <<>>) >>),
      WhileStmt(Identifier("a"), << If("a", << If("b", << PrintCall(IntLit(1)) >>, << PrintCall(IntLit(2)) >>) >>, <<>>) >>),
      If("a", << PrintCall(IntLit(1)) >>, << If("b", << If("c", << PrintCall(IntLit(1)) >>, << PrintCall(IntLit(2)) >>) >>, <<>>) >>),
      If("a", << ReturnStmt(IntLit(1)), PrintCall(IntLit(2)) >>, <<>>),
      WhileStmt(Identifier("a"), << ReturnStmt(None), PrintCall(IntLit(2)) >>) }

\* The call statements: calls with and without arguments of the functions around main and of
\* an undefined name, as statements and inside expressions.
CallShapes ==
    { Call0("k"), Call0("g"), Call0("h"), Call0("q"), Call0("u"),
      PrintCall(Call0("k")), PrintCall(Call0("g")),
      PrintCall(CallExpr(Identifier("k"), << IntLit(1) >>)), PrintCall(CallExpr(Identifier("g"), << IntLit(1) >>)),
      ReturnStmt(BinaryOp(Call0("k"), "+", Call0("g"))),
      If("a", << VarDecl("x", Call0("g")) >>, << ReturnStmt(Call0("k")) >>) }

\* The operands: 0, 1, 2, 0.0, 0.5, true, "a" and the unbound name x.
Operands ==
    { IntLit(0), IntLit(1), IntLit(2), Literal(PyFloat(0, 1)), Literal(PyFloat(1, 2)),
      Literal(PyBool(TRUE)), Literal(PyStr("a")), Identifier("x") }

BinaryOperators == {"+", "-", "*", "/", "%", "==", "!=", "<", ">", "<=", ">=", "&&"}

\* The expressions: one operator on operands, - and ! on operands and on -operand, an
\* arithmetic operator on an arithmetic expression and an operand, either way round, and an
\* operator on a sum and a division by zero.
Expressions ==
    LET small == {IntLit(0), IntLit(1), Identifier("x")}
        inner == {BinaryOp(a, op, b) : a \in small, b \in small, op \in {"+", "*", "/"}}
    IN  {BinaryOp(a, op, b) : a \in Operands, b \in Operands, op \in BinaryOperators}
        \cup {UnaryOp(op, a) : op \in {"-", "+", "!"}, a \in Operands}
        \cup {UnaryOp("-", UnaryOp("-", a)) : a \in Operands}
        \cup {UnaryOp("-", UnaryOp("-", UnaryOp("-", UnaryOp("-", Identifier("x")))))}
        \cup {BinaryOp(e, op, c) : e \in inner, c \in small, op \in {"+", "*", "-"}}
        \cup {BinaryOp(c, op, e) : e \in inner, c \in small, op \in {"+", "*", "-"}}
        \cup {BinaryOp(BinaryOp(IntLit(1), "+", IntLit(2)), op, BinaryOp(IntLit(2), d, IntLit(0))) :
                  op \in {"+", "<"}, d \in {"/", "%"}}

MainBodies ==
    SeqsUpTo(LetStmts, MaxBody)
        \cup {<<s>> : s \in IfShapes \cup CallShapes}
        \cup {<<s, ReturnStmt(Identifier("a"))>> : s \in IfShapes}
        \cup {<<ReturnStmt(e)>> : e \in Expressions}

\* let t = 1 + 2  func k ...  func g ...  func h ...  func q ...  func main() { body }  func r ...
DirectProgram(body) ==
    Program(<< VarDecl("t", BinaryOp(IntLit(1), "+", IntLit(2))), KFive, GParam, HPrints, QCallsH,
               FunctionDecl("main", <<>>, body), RReadsA >>)

DirectPrograms == {DirectProgram(body) : body \in MainBodies}

\* The passes default_pass_manager registers as enabled.
DirectPasses ==
    {"pass_purity_analysis", "pass_constant_folding", "pass_algebraic_simplify", "pass_dead_code_elimination",
     "pass_copy_propagation", "pass_dead_store_elimination", "pass_trivial_inlining", "pass_control_flow_simplify"}

InitDirect ==
    /\ \E tree \in DirectPrograms :
          LET s == StoreProgram(<<>>, tree)
          IN  /\ heap = s.heap
              /\ program = s.id
              /\ p = s.id
              /\ program0 = tree
              /\ pre = tree
    /\ passes = <<>>
    /\ pmpc = "direct"
    /\ pidx = 0
    /\ invoked = <<>>
    /\ lines = <<>>
    /\ IdleInterpreter
    /\ IdleEnvironment
    /\ IdleSandbox
    /\ IdleFrontEnd

\* p = fn(p, logger)
CallPass(fn) ==
    /\ pmpc = "direct"
    /\ Len(invoked) < MaxCalls
    /\ LET r == ApplyPass(fn, heap, p)
       IN  /\ heap' = r.heap
           /\ p' = r.ret
           /\ invoked' = Append(invoked, [name |-> fn, raised |-> r.raised])
    /\ lines' = lines \o PassLog(fn, heap, p)
    /\ pre' = TreeOf(heap, p)
    /\ UNCHANGED <<program, program0, passes, pmpc, pidx>>
    /\ UNCHANGED <<itVars, last, sbVars, feVars>>

NextDirect == \E fn \in DirectPasses : CallPass(fn)

SpecDirect == InitDirect /\ [][NextDirect]_vars

(***************************************************************************)
(* Properties of the passes: pre is the program a pass was given, post the *)
(* program it returned.                                                    *)
(***************************************************************************)
post == TreeOf(heap, p)

\* The pass called last.
Called(fn) == invoked # <<>> /\ invoked[Len(invoked)].name = fn

\* The FunctionDecl items of a program, in order.
Functions(tree) == SelectSeq(tree.body, LAMBDA item : item.k = "FunctionDecl")

\* The nodes of a tree, itself included.
RECURSIVE Nodes(_)
Nodes(node) == {node} \cup UNION {Nodes(Kids(node)[i]) : i \in DOMAIN Kids(node)}

\* The position of the first ReturnStmt of a block, 0 when it has none.
FirstReturn(block) ==
    IF \E i \in DOMAIN block : block[i].k = "ReturnStmt"
    THEN CHOOSE i \in DOMAIN block : block[i].k = "ReturnStmt" /\ \A j \in 1..(i - 1) : block[j].k # "ReturnStmt"
    ELSE 0

\* C19: dead_code_elimination leaves every function with its statements up to and including its
\* first ReturnStmt, unchanged and in order (all of them when it has none), so that nothing
\* follows a ReturnStmt of the body; the blocks under if and while are as they were, and so is
\* everything outside the functions.
DeadCodeAfterReturnRemoved ==
    Called("pass_dead_code_elimination") =>
        /\ Len(post.body) = Len(pre.body)
        /\ \A i \in DOMAIN pre.body :
              IF pre.body[i].k # "FunctionDecl" THEN post.body[i] = pre.body[i]
              ELSE /\ post.body[i] = [pre.body[i] EXCEPT !.body =
                            IF FirstReturn(@) = 0 THEN @ ELSE SubSeq(@, 1, FirstReturn(@))]
                   /\ \A j \in DOMAIN post.body[i].body :
                            post.body[i].body[j].k = "ReturnStmt" => j = Len(post.body[i].body)

\* C19 witness: a function lost the statement after its return, while the statement after the
\* return inside the if branch of main was kept.
DeadCodeWitness ==
    /\ Called("pass_dead_code_elimination")
    /\ \E i \in DOMAIN pre.body :
          /\ pre.body[i].k = "FunctionDecl"
          /\ Len(post.body[i].body) < Len(pre.body[i].body)
    /\ \E i \in DOMAIN post.body :
          /\ post.body[i].k = "FunctionDecl"
          /\ \E j \in DOMAIN post.body[i].body :
                /\ post.body[i].body[j].k = "IfStmt"
                /\ FirstReturn(post.body[i].body[j].then_branch) \in 1..(Len(post.body[i].body[j].then_branch) - 1)

\* Whether a statement, at any depth, holds a `let` of the name.
Declares(stmt, name) == \E x \in Nodes(stmt) : x.k = "VarDecl" /\ x.name = name

\* C12 (as claimed), for the statements S of a function body and T of the same body after
\* copy_propagation: a read of a name after its `let name = <identifier|literal>`, with no `let`
\* of the name in between, is replaced; after a later `let` of the name with another kind of
\* initializer its reads stay reads of the name; and a function that makes no copy is unchanged.
CopiesPropagateUntilRebound ==
    Called("pass_copy_propagation") =>
        \A f \in DOMAIN pre.body : pre.body[f].k = "FunctionDecl" =>
            LET S == pre.body[f].body
                T == post.body[f].body
            IN  /\ Len(T) = Len(S)
                /\ \A i, k \in DOMAIN S :
                      ( /\ i < k
                        /\ IsCopyDecl(S[i])
                        /\ S[i].name \in collect_reads(S[k])
                        /\ \A m \in (i + 1)..k : ~Declares(S[m], S[i].name)
                        /\ \A m \in 1..(k - 1) : IsCopyDecl(S[m]) => S[m].value # Identifier(S[i].name) )
                      => S[i].name \notin collect_reads(T[k])
                /\ \A j, k \in DOMAIN S :
                      ( /\ j < k
                        /\ S[j].k = "VarDecl" /\ ~IsCopyDecl(S[j])
                        /\ S[j].name \in collect_reads(S[k])
                        /\ \A m \in (j + 1)..(k - 1) : ~Declares(S[m], S[j].name) )
                      => S[j].name \in collect_reads(T[k])
                /\ (\A i \in DOMAIN S : ~IsCopyDecl(S[i])) => T = S

\* A sequence without the elements at the positions of D.
Without(S, D) ==
    LET keep[i \in 0..Len(S)] == IF i = 0 THEN <<>> ELSE IF i \in D THEN keep[i - 1] ELSE Append(keep[i - 1], S[i])
    IN  keep[Len(S)]

\* The positions of the `let`s with an initializer whose name no later statement of the block reads.
DeadLets(S) ==
    {i \in DOMAIN S : /\ S[i].k = "VarDecl" /\ S[i].value # None
                      /\ \A k \in (i + 1)..Len(S) : S[i].name \notin collect_reads(S[k])}

\* C13 (as claimed): dead_store_elimination leaves of every function body a selection of its
\* statements, in order, that holds none of the `let`s with an initializer whose name is read by
\* no statement after it.
DeadStoresRemovedByPosition ==
    Called("pass_dead_store_elimination") =>
        \A f \in DOMAIN pre.body : pre.body[f].k = "FunctionDecl" =>
            \E D \in SUBSET DOMAIN pre.body[f].body :
                /\ DeadLets(pre.body[f].body) \subseteq D
                /\ post.body[f].body = Without(pre.body[f].body, D)

\* The positions of the `let`s whose name a later statement of the block reads.
ReadLets(S) ==
    {i \in DOMAIN S : /\ S[i].k = "VarDecl"
                      /\ \E k \in (i + 1)..Len(S) : S[i].name \in collect_reads(S[k])}

\* C27 (as claimed): dead_store_elimination leaves of every function body a selection of its
\* statements, in order, that holds every `let` whose name a later statement of the body reads,
\* a later `let` in its initializer included.
ReadLetsKept ==
    Called("pass_dead_store_elimination") =>
        \A f \in DOMAIN pre.body : pre.body[f].k = "FunctionDecl" =>
            \E D \in SUBSET DOMAIN pre.body[f].body :
                /\ ReadLets(pre.body[f].body) \cap D = {}
                /\ post.body[f].body = Without(pre.body[f].body, D)

\* The if statements of a tree that have an else branch, as a bag would count them: the number
\* of IfStmt occurrences with a non-empty else_branch.
RECURSIVE ElseCount(_)
ElseCount(node) ==
    LET below[i \in 0..Len(Kids(node))] == IF i = 0 THEN 0 ELSE below[i - 1] + ElseCount(Kids(node)[i])
    IN  below[Len(Kids(node))] + (IF node.k = "IfStmt" /\ node.else_branch # <<>> THEN 1 ELSE 0)

\* `if A { if B S }`: no else, one statement in the then-branch, an if, itself without else.
MergeableIf(stmt) ==
    /\ stmt.k = "IfStmt" /\ stmt.else_branch = <<>>
    /\ Len(stmt.then_branch) = 1
    /\ stmt.then_branch[1].k = "IfStmt" /\ stmt.then_branch[1].else_branch = <<>>

\* C14 (as claimed): control_flow_simplify keeps every else branch of every function, and an if
\* statement of a function body that is not of the form `if A { if B S }` is still an if on the
\* same condition.
NestedIfMergedOnlyWithoutElse ==
    Called("pass_control_flow_simplify") =>
        \A f \in DOMAIN pre.body : pre.body[f].k = "FunctionDecl" =>
            /\ ElseCount(post.body[f]) = ElseCount(pre.body[f])
            /\ Len(post.body[f].body) = Len(pre.body[f].body)
            /\ \A i \in DOMAIN pre.body[f].body :
                  (pre.body[f].body[i].k = "IfStmt" /\ ~MergeableIf(pre.body[f].body[i])) =>
                      /\ post.body[f].body[i].k = "IfStmt"
                      /\ post.body[f].body[i].condition = pre.body[f].body[i].condition

\* A call trivial_inlining may replace, as claimed: no arguments, and the callee names a
\* top-level function without parameters whose body is one `return <literal|identifier>`.
InlinableCall(node, tree) ==
    /\ node.k = "CallExpr" /\ node.callee.k = "Identifier" /\ node.args = <<>>
    /\ \E i \in DOMAIN tree.body :
          /\ tree.body[i].k = "FunctionDecl" /\ tree.body[i].name = node.callee.name
          /\ tree.body[i].params = <<>>
          /\ Len(tree.body[i].body) = 1
          /\ tree.body[i].body[1].k = "ReturnStmt"
          /\ tree.body[i].body[1].value.k \in {"Literal", "Identifier"}

\* C15 (as claimed): trivial_inlining leaves every statement of a function body unchanged that
\* holds no call without arguments of a parameterless function returning a literal or an
\* identifier; in particular a call of a function that declares parameters stays a call.
OnlyParameterlessCallsInlined ==
    Called("pass_trivial_inlining") =>
        \A f \in DOMAIN pre.body : pre.body[f].k = "FunctionDecl" =>
            /\ Len(post.body[f].body) = Len(pre.body[f].body)
            /\ \A i \in DOMAIN pre.body[f].body :
                  (\A node \in Nodes(pre.body[f].body[i]) : ~InlinableCall(node, pre)) =>
                      post.body[f].body[i] = pre.body[f].body[i]

\* The names a function calls, and the functions of the program it reaches through calls.
Callees(fn) == {node.callee.name : node \in {x \in Nodes(fn) : x.k = "CallExpr" /\ x.callee.k = "Identifier"}}

RECURSIVE ReachableNames(_, _, _)
ReachableNames(tree, names, n) ==
    IF n = 0 THEN names
    ELSE ReachableNames(tree, names \cup UNION {Callees(tree.body[i]) :
                                  i \in {j \in DOMAIN tree.body : tree.body[j].k = "FunctionDecl" /\ tree.body[j].name \in names}},
                        n - 1)

\* Whether fn, or a function of the program reachable from it through calls, calls an impure name.
ReachesImpure(tree, fn) ==
    ReachableNames(tree, {fn.name}, Len(tree.body) + 1) \cap {"print", "input", "cyon_print", "cyon_input"} # {}

\* C20 (as claimed): purity_analysis reports each function of the program once, and reports it
\* pure exactly when neither it nor any function it reaches through calls calls an impure name.
PurityIsTransitive ==
    Called("pass_purity_analysis") =>
        LET reports == SelectSeq(lines, LAMBDA l : l.msg = "purity: function")
            fns     == Functions(pre)
        IN  /\ Len(reports) = Len(fns)
            /\ \A i \in DOMAIN fns :
                  /\ reports[i].arg.name = fns[i].name
                  /\ reports[i].arg.pure <=> ~ReachesImpure(pre, fns[i])

\* An int or float literal, and one that is zero.
NumericLiteral(node) == node.k = "Literal" /\ node.value.t \in {"int", "float"}

ZeroLiteral(node) == node \in {Literal(PyInt(0)), Literal(PyFloat(0, 1))}

\* A BinaryOp constant_folding is to evaluate, and one it is to leave: a division by literal zero.
Foldable(node) ==
    /\ node.k = "BinaryOp"
    /\ node.op \in {"+", "-", "*", "/", "%", "==", "!=", "<", ">", "<=", ">="}
    /\ NumericLiteral(node.left) /\ NumericLiteral(node.right)

DividesByZero(node) == node.op \in {"/", "%"} /\ ZeroLiteral(node.right)

\* The value of a op b on ints a and b (b > 0 for / and %): a quotient is the float a/b.
IntResult(op, a, b) ==
    CASE op = "+"  -> PyInt(a + b)
      [] op = "-"  -> PyInt(a - b)
      [] op = "*"  -> PyInt(a * b)
      [] op = "/"  -> PyFloat(a, b)
      [] op = "%"  -> PyInt(a % b)
      [] op = "==" -> PyBool(a = b)
      [] op = "!=" -> PyBool(a # b)
      [] op = "<"  -> PyBool(a < b)
      [] op = ">"  -> PyBool(a > b)
      [] op = "<=" -> PyBool(a <= b)
      [] op = ">=" -> PyBool(a >= b)

\* C16: constant_folding raises nothing and leaves in the functions no BinaryOp of the eleven
\* operators on two numeric literals but divisions and remainders by literal zero; a returned
\* operation on two int literals has become the literal of its value, and a returned division
\* or remainder of a numeric literal by literal zero is the BinaryOp it was.
ConstantsFolded ==
    Called("pass_constant_folding") =>
        /\ ~invoked[Len(invoked)].raised
        /\ \A f \in DOMAIN post.body : post.body[f].k = "FunctionDecl" =>
              \A node \in Nodes(post.body[f]) : Foldable(node) => DividesByZero(node)
        /\ \A f \in DOMAIN pre.body : pre.body[f].k = "FunctionDecl" =>
              \A j \in DOMAIN pre.body[f].body :
                  LET stmt == pre.body[f].body[j]
                  IN  (stmt.k = "ReturnStmt" /\ stmt.value # None /\ Foldable(stmt.value)) =>
                          /\ DividesByZero(stmt.value) => post.body[f].body[j] = stmt
                          /\ (~DividesByZero(stmt.value) /\ stmt.value.left.value.t = "int" /\ stmt.value.right.value.t = "int") =>
                                post.body[f].body[j] =
                                    ReturnStmt(Literal(IntResult(stmt.value.op, stmt.value.left.value.n, stmt.value.right.value.n)))

\* C16 witness: of `(1 + 2) op (2 / 0)` the sum was folded to 3 and the division by zero was left.
FoldedAroundZeroDivisionWitness ==
    /\ Called("pass_constant_folding")
    /\ \E f \in DOMAIN pre.body :
          /\ pre.body[f].k = "FunctionDecl"
          /\ pre.body[f].body = << ReturnStmt(BinaryOp(BinaryOp(IntLit(1), "+", IntLit(2)), "<", BinaryOp(IntLit(2), "/", IntLit(0)))) >>
          /\ post.body[f].body = << ReturnStmt(BinaryOp(IntLit(3), "<", BinaryOp(IntLit(2), "/", IntLit(0)))) >>

\* C17: constant_folding called on what constant_folding returned returns the same tree.
ConstantFoldingIdempotent ==
    /\ Called("pass_constant_folding") =>
          LET again == pass_constant_folding(heap, p)
          IN  ~again.raised /\ TreeOf(again.heap, again.ret) = post
    /\ (Len(invoked) >= 2 /\ Called("pass_constant_folding") /\ invoked[Len(invoked) - 1].name = "pass_constant_folding") =>
          post = pre

\* C17 witness: the first call folded an operation whose operand was itself an operation.
NestedFoldWitness ==
    /\ Called("pass_constant_folding")
    /\ post # program0
    /\ \E f \in DOMAIN program0.body :
          /\ program0.body[f].k = "FunctionDecl"
          /\ \E j \in DOMAIN program0.body[f].body :
                /\ program0.body[f].body[j].k = "ReturnStmt"
                /\ program0.body[f].body[j].value.k = "BinaryOp"
                /\ program0.body[f].body[j].value.left.k = "BinaryOp"
                /\ post.body[f].body[j].value.k = "Literal"

\* The forms algebraic_simplify is to rewrite.
AlgebraicPattern(node) ==
    \/ /\ node.k = "BinaryOp"
       /\ \/ node.op = "*" /\ (node.left \in {IntLit(0), IntLit(1)} \/ node.right \in {IntLit(0), IntLit(1)})
          \/ node.op = "+" /\ (node.left = IntLit(0) \/ node.right = IntLit(0))
          \/ node.op = "-" /\ node.right = IntLit(0)
          \/ node.op = "/" /\ node.right = IntLit(1)
    \/ node.k = "UnaryOp" /\ node.op = "-" /\ node.operand.k = "UnaryOp" /\ node.operand.op = "-"

\* A literal whose value is the number 0, resp. 1 (0, 0.0, false; 1, 1.0, true).
ZeroLike(node) == node \in {Literal(PyInt(0)), Literal(PyFloat(0, 1)), Literal(PyBool(FALSE))}

OneLike(node) == node \in {Literal(PyInt(1)), Literal(PyFloat(1, 1)), Literal(PyBool(TRUE))}

\* What the rules x*0 -> 0, x*1 -> x, x+0 -> x, x-0 -> x, x/1 -> x (both orders for * and +)
\* make of a BinaryOp: one result per rule that applies.
Rewrites(e) ==
    (IF e.op = "*" /\ (ZeroLike(e.left) \/ ZeroLike(e.right)) THEN {IntLit(0)} ELSE {})
        \cup (IF e.op \in {"*", "/"} /\ OneLike(e.right) THEN {e.left} ELSE {})
        \cup (IF e.op = "*" /\ OneLike(e.left) THEN {e.right} ELSE {})
        \cup (IF e.op \in {"+", "-"} /\ ZeroLike(e.right) THEN {e.left} ELSE {})
        \cup (IF e.op = "+" /\ ZeroLike(e.left) THEN {e.right} ELSE {})

Environment(parent) == [parent |-> parent, values |-> <<>>]

\* Environment.define
Environment_define(es, env, name, value) ==
    [es EXCEPT ![env].values = (name :> value) @@ @]

\* Environment.find_env_for: the id of the nearest environment binding name, 0 for None.
RECURSIVE find_env_for(_, _, _)
find_env_for(es, env, name) ==
    IF name \in DOMAIN es[env].values THEN env
    ELSE IF es[env].parent # 0 THEN find_env_for(es, es[env].parent, name)
    ELSE 0

\* Mutant of Environment_set: always the current environment.
Environment_set_local(es, env, name, value) ==
    [es EXCEPT ![env].values = (name :> value) @@ @]

\* Environment.set
Environment_set(es, env, name, value) ==
    LET e == find_env_for(es, env, name)
    IN  IF e # 0 THEN [es EXCEPT ![e].values = (name :> value) @@ @]
        ELSE [es EXCEPT ![env].values = (name :> value) @@ @]

\* Environment.get: [found, val, env]; found FALSE is the raise of "Undefined variable".
RECURSIVE Environment_get(_, _, _)
Environment_get(es, env, name) ==
    IF name \in DOMAIN es[env].values THEN [found |-> TRUE, val |-> es[env].values[name], env |-> env]
    ELSE IF es[env].parent # 0 THEN Environment_get(es, es[env].parent, name)
    ELSE [found |-> FALSE, val |-> PyNone, env |-> 0]

(***************************************************************************)
(* Interpreter values and outcomes                                         *)
(***************************************************************************)
FunctionValue(name, params, body, env) == [t |-> "function", name |-> name, params |-> params, body |-> body, env |-> env]

NativeFunction(name) == [t |-> "native", name |-> name]

ArrayValue(elements) == [t |-> "array", elements |-> elements]

\* An exception object: its Python class and, for the interpreter's RuntimeError, the kind of
\* failure its message reports.
Exc(cls, kind) == [t |-> "exc", cls |-> cls, kind |-> kind]

\* bool(v) as Python computes it; ArrayValue, FunctionValue and NativeFunction define neither
\* __bool__ nor __len__ and are always true.
Truthy(v) ==
    CASE v.t = "null" -> FALSE
      [] v.t = "bool" -> v.b
      [] v.t = "int"  -> v.n # 0
      [] v.t = "str"  -> v.s # ""
      [] v.t = "list" -> v.elems # <<>>
      [] OTHER        -> TRUE

\* The evaluator's state is threaded through the evaluation as a record of the interpreter's
\* fields; fuel bounds the evaluation (statements, loop iterations and calls still allowed).
Ok(st, v) == [st |-> st, sig |-> "ok", val |-> v]

Signal(st, sig, v) == [st |-> st, sig |-> sig, val |-> v]

Error(st, cls, kind) == [st |-> [st EXCEPT !.trace = Append(@, [e |-> "raise", kind |-> kind])], sig |-> "error", val |-> Exc(cls, kind)]

OutOfFuel(st) == [st |-> st, sig |-> "fuel", val |-> PyNone]

Ev(st, e) == [st EXCEPT !.trace = Append(@, e)]

Tick(st) == [st EXCEPT !.fuel = @ - 1]

\* Interpreter._profile_hit
_profile_hit(prof, name) ==
    (name :> (IF name \in DOMAIN prof THEN prof[name] + 1 ELSE 1)) @@ prof

\* Interpreter._setup_builtins
Builtins == {"print", "input", "len", "range", "time", "sin", "cos", "int", "float"}

global_env == [parent |-> 0, values |-> [n \in Builtins |-> NativeFunction(n)]]

\* _apply_binop and _apply_unary start with `if op == TokenType.PLUS ...` resp. `TokenType.BANG`;
\* interpreter.py imports no TokenType, so evaluating the first test raises NameError.
_apply_binop(op, a, b, st) == Error(st, "NameError", "NameError")

_apply_unary(op, v, st) == Error(st, "NameError", "NameError")

\* The elements a for loop iterates over, for the values that have __iter__.
HasIter(v) == v.t \in {"list", "str"}

StrChars(str) ==
    CASE str = ""    -> <<>>
      [] str = "a"   -> <<PyStr("a")>>
      [] str = "ab"  -> <<PyStr("a"), PyStr("b")>>

Elements(v) == IF v.t = "list" THEN v.elems ELSE StrChars(v.s)

\* call_native for the natives the programs of the model call: print, range(n), len.
call_native(native, args, st) ==
    CASE native.name = "print" -> Ok([st EXCEPT !.out = Append(@, args)], PyNone)
      [] native.name = "range" ->
            IF Len(args) = 1 /\ args[1].t = "int"
            THEN Ok(st, PyList([i \in 1..args[1].n |-> PyInt(i - 1)]))
            ELSE Error(st, "TypeError", "TypeError")
      [] native.name = "len" ->
            IF Len(args) # 1 THEN Error(st, "TypeError", "TypeError")
            ELSE IF args[1].t = "list" THEN Ok(st, PyInt(Len(args[1].elems)))
            ELSE IF args[1].t = "str" THEN Ok(st, PyInt(Len(StrChars(args[1].s))))
            ELSE Error(st, "RuntimeError", "NotACollection")

\* The dict that `for name, value in zip(fn.params, args): env.define(name, value)` leaves.
BindParams(params, args) ==
    LET n == IF Len(params) < Len(args) THEN Len(params) ELSE Len(args)
    IN  [x \in {params[i] : i \in 1..n} |-> args[CHOOSE i \in 1..n : params[i] = x /\ \A j \in 1..n : params[j] = x => j <= i]]

\* Mutant of ArityOk: surplus arguments are accepted.
ArityOk_lenient(fn, args) == Len(args) >= Len(fn.params)

\* The test `len(args) != len(fn.params)` of call_function, as the condition to go on.
ArityOk(fn, args) == Len(args) = Len(fn.params)

\* Mutant of CallEnvironment: the caller's frame as parent (dynamic scoping).
CallEnvironment_dynamic(fn, args, caller) == [parent |-> caller, values |-> BindParams(fn.params, args)]

\* env = Environment(parent=fn.env) with the parameters bound; caller is the environment of the
\* frame on top of the call stack, which the code does not consult.
CallEnvironment(fn, args, caller) == [parent |-> fn.env, values |-> BindParams(fn.params, args)]

\* Whether a frame of the call stack other than env binds name (used only in the history).
CallerBinds(st, env, name) ==
    \E i \in DOMAIN st.call_stack : st.call_stack[i].env # env /\ name \in DOMAIN st.envs[st.call_stack[i].env].values

(***************************************************************************)
(* Interpreter: eval_expression, eval_statement, call_function.            *)
(* Each yields [st, sig, val]: sig "ok" is normal completion with value    *)
(* val; "return", "break", "continue" are ReturnSignal, BreakSignal and    *)
(* ContinueSignal in flight; "error" is any other exception in flight;     *)
(* "fuel" is the evaluation cut off by the bound.  loops counts the        *)
(* while/for bodies of the current call around the statement (history).    *)
(***************************************************************************)
RECURSIVE eval_expression(_, _, _)
RECURSIVE eval_list(_, _, _, _)
RECURSIVE eval_statement(_, _, _, _)
RECURSIVE exec_block(_, _, _, _)
RECURSIVE while_loop(_, _, _, _)
RECURSIVE for_loop(_, _, _, _, _)
RECURSIVE call_function(_, _, _)
RECURSIVE call_body(_, _, _, _)

\* The rest of an evaluation after one of its steps: K continues from the step's outcome r.
With(r, K(_)) == K(r)

\* The same when the rest only runs if the step completed normally: a signal or an exception in
\* flight leaves the enclosing Python function at once.
Bind(r, K(_)) == IF r.sig # "ok" THEN r ELSE K(r)

\* [self.eval_expression(a, env) for a in node.args]: left to right, stopping at the first raise.
eval_list(nodes, env, st, vals) ==
    IF nodes = <<>> THEN Ok(st, vals)
    ELSE Bind(eval_expression(Head(nodes), env, st),
              LAMBDA r : eval_list(Tail(nodes), env, r.st, Append(vals, r.val)))

\* The lookup of an Identifier, with the lookup recorded in the history.
eval_identifier(node, env, st, g) ==
    With(Ev(st, [e |-> "read", env |-> env, name |-> node.name, from |-> g.env,
                 caller |-> CallerBinds(st, env, node.name)]),
         LAMBDA s1 : IF g.found THEN Ok(s1, g.val) ELSE Error(s1, "RuntimeError", "UndefinedSymbol"))

\* The call of CallExpr once callee c and arguments a are evaluated.
eval_call(c, a) ==
    IF c.val.t = "function" THEN call_function(c.val, a.val, a.st)
    ELSE IF c.val.t = "native" THEN call_native(c.val, a.val, a.st)
    ELSE Error(a.st, "RuntimeError", "NotCallable")

\* coll[idx] of IndexExpr: only Python lists index (ArrayValue has no __getitem__); any
\* exception becomes RuntimeError('Indexing error').
eval_index(c, i) ==
    IF c.val.t = "list" /\ i.val.t = "int" /\ i.val.n >= 0 /\ i.val.n < Len(c.val.elems)
    THEN Ok(i.st, c.val.elems[i.val.n + 1])
    ELSE IF c.val.t = "list" /\ i.val.t = "int" /\ i.val.n < 0 /\ 0 - i.val.n <= Len(c.val.elems)
    THEN Ok(i.st, c.val.elems[Len(c.val.elems) + i.val.n + 1])
    ELSE Error(i.st, "RuntimeError", "Indexing")

\* Mutant of eval_expression: && and || leave the right operand alone when the left one
\* decides the result.
eval_expression_short_circuit(node, env, st) ==
    CASE node.k = "Literal" -> Ok(st, node.value)
      [] node.k = "Identifier" -> eval_identifier(node, env, st, Environment_get(st.envs, env, node.name))
      [] node.k = "BinaryOp" ->
            Bind(eval_expression(node.left, env, st), LAMBDA l :
            IF (node.op = "&&" /\ ~Truthy(l.val)) \/ (node.op = "||" /\ Truthy(l.val)) THEN l
            ELSE Bind(eval_expression(node.right, env, l.st), LAMBDA r :
                 _apply_binop(node.op, l.val, r.val, r.st)))
      [] node.k = "UnaryOp" ->
            Bind(eval_expression(node.operand, env, st), LAMBDA v : _apply_unary(node.op, v.val, v.st))
      [] node.k = "CallExpr" ->
            Bind(eval_expression(node.callee, env, st), LAMBDA c :
            Bind(eval_list(node.args, env, c.st, <<>>), LAMBDA a :
            eval_call(c, a)))
      [] node.k = "ArrayExpr" ->
            Bind(eval_list(node.elements, env, st, <<>>), LAMBDA a : Ok(a.st, ArrayValue(a.val)))
      [] node.k = "IndexExpr" ->
            Bind(eval_expression(node.collection, env, st), LAMBDA c :
            Bind(eval_expression(node.index, env, c.st), LAMBDA i :
            eval_index(c, i)))
      [] OTHER -> Error(st, "RuntimeError", "UnsupportedExpression")

eval_expression(node, env, st) ==
    CASE node.k = "Literal" -> Ok(st, node.value)
      [] node.k = "Identifier" -> eval_identifier(node, env, st, Environment_get(st.envs, env, node.name))
      [] node.k = "BinaryOp" ->
            Bind(eval_expression(node.left, env, st), LAMBDA l :
            Bind(eval_expression(node.right, env, l.st), LAMBDA r :
            _apply_binop(node.op, l.val, r.val, r.st)))
      [] node.k = "UnaryOp" ->
            Bind(eval_expression(node.operand, env, st), LAMBDA v : _apply_unary(node.op, v.val, v.st))
      [] node.k = "CallExpr" ->
            Bind(eval_expression(node.callee, env, st), LAMBDA c :
            Bind(eval_list(node.args, env, c.st, <<>>), LAMBDA a :
            eval_call(c, a)))
      [] node.k = "ArrayExpr" ->
            Bind(eval_list(node.elements, env, st, <<>>), LAMBDA a : Ok(a.st, ArrayValue(a.val)))
      [] node.k = "IndexExpr" ->
            Bind(eval_expression(node.collection, env, st), LAMBDA c :
            Bind(eval_expression(node.index, env, c.st), LAMBDA i :
            eval_index(c, i)))
      [] OTHER -> Error(st, "RuntimeError", "UnsupportedExpression")

\* for s in <list>: self.eval_statement(s, env)
exec_block(stmts, env, st, loops) ==
    IF stmts = <<>> THEN Ok(st, PyNone)
    ELSE Bind(eval_statement(Head(stmts), env, st, loops),
              LAMBDA r : exec_block(Tail(stmts), env, r.st, loops))

\* A loop's try/except around its body: BreakSignal and ContinueSignal are caught here, whatever
\* raised them.
Caught(b, sig, env) == Ev(b.st, [e |-> "caught", sig |-> sig, env |-> env])

\* The `while True:` of WhileStmt: the condition is evaluated outside the try, the body inside.
while_loop(node, env, st, loops) ==
    IF st.fuel = 0 THEN OutOfFuel(st)
    ELSE Bind(eval_expression(node.condition, env, Tick(st)), LAMBDA c :
         IF ~Truthy(c.val) THEN Ok(c.st, PyNone)
         ELSE With(exec_block(node.body, env, c.st, loops + 1), LAMBDA b :
              CASE b.sig = "break"    -> Ok(Caught(b, "break", env), PyNone)
                [] b.sig = "continue" -> while_loop(node, env, Caught(b, "continue", env), loops)
                [] b.sig = "ok"       -> while_loop(node, env, b.st, loops)
                [] OTHER              -> b))

\* The `for it in iterable:` of ForStmt over the remaining elements.
for_loop(node, items, env, st, loops) ==
    IF items = <<>> THEN Ok(st, PyNone)
    ELSE IF st.fuel = 0 THEN OutOfFuel(st)
    ELSE With(exec_block(node.body, env,
                         [Tick(st) EXCEPT !.envs = Environment_define(@, env, node.iterator, Head(items))],
                         loops + 1), LAMBDA b :
         CASE b.sig = "break"    -> Ok(Caught(b, "break", env), PyNone)
           [] b.sig = "continue" -> for_loop(node, Tail(items), env, Caught(b, "continue", env), loops)
           [] b.sig = "ok"       -> for_loop(node, Tail(items), env, b.st, loops)
           [] OTHER              -> b)

\* eval_statement after its entry is recorded in the history (s0).
eval_statement_of(node, env, s0, loops) ==
    CASE node.k = "VarDecl" ->
            IF node.value = None THEN Ok([s0 EXCEPT !.envs = Environment_define(@, env, node.name, PyNone)], PyNone)
            ELSE Bind(eval_expression(node.value, env, s0), LAMBDA v :
                 Ok([v.st EXCEPT !.envs = Environment_define(@, env, node.name, v.val)], PyNone))
      [] node.k = "ReturnStmt" ->
            IF node.value = None THEN Signal(Ev(s0, [e |-> "return", env |-> env, val |-> PyNone]), "return", PyNone)
            ELSE Bind(eval_expression(node.value, env, s0), LAMBDA v :
                 Signal(Ev(v.st, [e |-> "return", env |-> env, val |-> v.val]), "return", v.val))
      [] node.k = "IfStmt" ->
            Bind(eval_expression(node.condition, env, s0), LAMBDA c :
            exec_block(IF Truthy(c.val) THEN node.then_branch ELSE node.else_branch, env, c.st, loops))
      [] node.k = "WhileStmt" -> while_loop(node, env, s0, loops)
      [] node.k = "ForStmt" ->
            IF node.iterator = "" \/ node.iterable = None THEN Error(s0, "RuntimeError", "UnsupportedFor")
            ELSE Bind(eval_expression(node.iterable, env, s0), LAMBDA it :
                 IF ~HasIter(it.val) THEN Error(it.st, "RuntimeError", "NotIterable")
                 ELSE for_loop(node, Elements(it.val), env, it.st, loops))
      [] node.k = "BreakStmt" -> Signal(Ev(s0, [e |-> "break", env |-> env, loops |-> loops]), "break", PyNone)
      [] node.k = "ContinueStmt" -> Signal(Ev(s0, [e |-> "continue", env |-> env, loops |-> loops]), "continue", PyNone)
      [] OTHER -> Bind(eval_expression(node, env, s0), LAMBDA v : Ok(v.st, PyNone))

eval_statement(node, env, st, loops) ==
    IF st.fuel = 0 THEN OutOfFuel(st)
    ELSE eval_statement_of(node, env, Ev(Tick(st), [e |-> "exec", env |-> env, k |-> node.k]), loops)

\* self.exec_count += 1; self._profile_hit(fn.name)
CountStatement(fn, st) == [st EXCEPT !.exec_count = @ + 1, !.profile = _profile_hit(@, fn.name)]

\* Mutant of call_body: a ReturnSignal does not end the loop over the body.
call_body_past_return(fn, stmts, env, st) ==
    IF stmts = <<>> THEN Ok(st, PyNone)
    ELSE With(eval_statement(Head(stmts), env, CountStatement(fn, st), 0), LAMBDA r :
         IF r.sig \notin {"ok", "return"} THEN r ELSE call_body(fn, Tail(stmts), env, r.st))

\* The loop `for stmt in fn.body` of call_function.
call_body(fn, stmts, env, st) ==
    IF stmts = <<>> THEN Ok(st, PyNone)
    ELSE Bind(eval_statement(Head(stmts), env, CountStatement(fn, st), 0),
              LAMBDA r : call_body(fn, Tail(stmts), env, r.st))

\* The environment of the frame on top of the call stack (global_env when it is empty).
TopEnv(st) == IF st.call_stack = <<>> THEN 1 ELSE st.call_stack[Len(st.call_stack)].env

\* self.call_stack.append(...) after the new Environment is built, recorded in the history.
PushFrame(fn, args, st, env) ==
    Ev([st EXCEPT !.envs = Append(@, CallEnvironment(fn, args, TopEnv(st))),
                  !.call_stack = Append(@, [name |-> fn.name, env |-> env])],
       [e |-> "enter", env |-> env, fn |-> fn.name, closure |-> fn.env, caller |-> TopEnv(st),
        nparams |-> Len(fn.params), nargs |-> Len(args)])

\* finally: self.call_stack.pop(), recorded in the history with the way the call ended.
PopFrame(b, env, how, val) ==
    Ev([b.st EXCEPT !.call_stack = SubSeq(@, 1, Len(@) - 1)], [e |-> "exit", env |-> env, how |-> how, val |-> val])

\* Mutant of call_exit: the frame is popped after the loop and in the handler of ReturnSignal,
\* not in a finally, so a call that fails leaves its frame on the stack.
call_exit_pops_on_success(b, env) ==
    CASE b.sig = "ok"     -> Ok(PopFrame(b, env, "end", PyNone), PyNone)
      [] b.sig = "return" -> Ok(PopFrame(b, env, "return", b.val), b.val)
      [] OTHER            -> Signal(Ev(b.st, [e |-> "exit", env |-> env, how |-> b.sig, val |-> PyNone]), b.sig, b.val)

\* The end of call_function: only ReturnSignal is caught; anything else in flight goes on to the
\* caller after the frame is popped.
call_exit(b, env) ==
    CASE b.sig = "ok"     -> Ok(PopFrame(b, env, "end", PyNone), PyNone)
      [] b.sig = "return" -> Ok(PopFrame(b, env, "return", b.val), b.val)
      [] OTHER            -> Signal(PopFrame(b, env, b.sig, PyNone), b.sig, b.val)

call_function(fn, args, st) ==
    IF ~ArityOk(fn, args)
    THEN Error(Ev(st, [e |-> "arity", fn |-> fn.name, nenvs |-> Len(st.envs), depth |-> Len(st.call_stack)]),
               "RuntimeError", "ArityMismatch")
    ELSE IF st.fuel = 0 THEN OutOfFuel(st)
    ELSE call_exit(call_body(fn, fn.body, Len(st.envs) + 1, PushFrame(fn, args, Tick(st), Len(st.envs) + 1)),
                   Len(st.envs) + 1)

(***************************************************************************)
(* Interpreter.run_program, one step per top-level node and one for the    *)
(* call of main.                                                           *)
(***************************************************************************)
\* The interpreter's fields as the evaluator's state, and back.
Fields == [envs |-> envs, call_stack |-> call_stack, exec_count |-> exec_count, profile |-> profile,
           out |-> out, trace |-> trace, fuel |-> MaxSteps]

Commit(st) ==
    /\ envs' = st.envs
    /\ call_stack' = st.call_stack
    /\ exec_count' = st.exec_count
    /\ profile' = st.profile
    /\ out' = st.out
    /\ trace' = st.trace

\* The step ends normally (the loop goes on) or an exception leaves run_program.
Continue(r) ==
    /\ Commit(r.st)
    /\ IF r.sig = "ok"
       THEN ipc' = ipc /\ itop' = itop + 1 /\ result' = result
       ELSE ipc' = "done" /\ itop' = itop /\ result' = [sig |-> r.sig, val |-> r.val]

\* run_program ends: main's value is returned or its exception leaves run_program.
Return(r) ==
    /\ Commit(r.st)
    /\ result' = [sig |-> r.sig, val |-> r.val]
    /\ ipc' = "done"

TopEvent(node) == [e |-> "top", i |-> itop, k |-> node.k]

\* Mutant of RunLoadFunction: an existing binding of the name is kept.
RunLoadFunction_keeps_first ==
    /\ ipc = "load"
    /\ itop <= Len(iprog.body)
    /\ LET node == iprog.body[itop]
       IN  /\ node.k = "FunctionDecl"
           /\ Continue(Ok([Ev(Fields, TopEvent(node)) EXCEPT
                    !.envs = IF node.name \in DOMAIN @[1].values THEN @
                             ELSE Environment_define(@, 1, node.name, FunctionValue(node.name, node.params, node.body, 1))], PyNone))
    /\ UNCHANGED <<iprog, pmVars, last, sbVars, feVars>>

\* isinstance(node, FunctionDecl): bind a FunctionValue closed over global_env.
RunLoadFunction ==
    /\ ipc = "load"
    /\ itop <= Len(iprog.body)
    /\ LET node == iprog.body[itop]
       IN  /\ node.k = "FunctionDecl"
           /\ Continue(Ok([Ev(Fields, TopEvent(node)) EXCEPT
                    !.envs = Environment_define(@, 1, node.name, FunctionValue(node.name, node.params, node.body, 1))], PyNone))
    /\ UNCHANGED <<iprog, pmVars, last, sbVars, feVars>>

\* isinstance(node, VarDecl): evaluate the initializer in global_env, then bind.
RunLoadVar ==
    /\ ipc = "load"
    /\ itop <= Len(iprog.body)
    /\ LET node == iprog.body[itop]
       IN  /\ node.k = "VarDecl"
           /\ Continue(Bind(IF node.value = None THEN Ok(Ev(Fields, TopEvent(node)), PyNone)
                            ELSE eval_expression(node.value, 1, Ev(Fields, TopEvent(node))),
                            LAMBDA v : Ok([v.st EXCEPT !.envs = Environment_define(@, 1, node.name, v.val)], PyNone)))
    /\ UNCHANGED <<iprog, pmVars, last, sbVars, feVars>>

\* Any other top-level node: self.eval_statement(node).
RunLoadStatement ==
    /\ ipc = "load"
    /\ itop <= Len(iprog.body)
    /\ LET node == iprog.body[itop]
       IN  /\ node.k \notin {"FunctionDecl", "VarDecl"}
           /\ Continue(eval_statement(node, 1, Ev(Fields, TopEvent(node)), 0))
    /\ UNCHANGED <<iprog, pmVars, last, sbVars, feVars>>

\* Mutant of CallMain: a program without main just ends.
CallMain_optional(g, st) ==
    IF ~g.found THEN Ok(st, PyNone)
    ELSE IF g.val.t = "function" THEN call_function(g.val, <<>>, st)
    ELSE IF g.val.t = "native" THEN call_native(g.val, <<>>, st)
    ELSE Error(st, "RuntimeError", "NotCallable")

\* The tail of run_program: g is the outcome of global_env.get('main').
CallMain(g, st) ==
    IF ~g.found THEN Error(st, "RuntimeError", "UndefinedSymbol")
    ELSE IF g.val.t = "function" THEN call_function(g.val, <<>>, st)
    ELSE IF g.val.t = "native" THEN call_native(g.val, <<>>, st)
    ELSE Error(st, "RuntimeError", "NotCallable")

\* After the loop: look main up in global_env and call it.
RunCallMain ==
    /\ ipc = "load"
    /\ itop > Len(iprog.body)
    /\ Return(CallMain(Environment_get(envs, 1, "main"), Ev(Fields, [e |-> "main"])))
    /\ UNCHANGED <<iprog, itop, pmVars, last, sbVars, feVars>>

(***************************************************************************)
(* Inputs of the interpreter model: programs of up to MaxTop top-level     *)
(* nodes drawn from TopNodes.                                              *)
(***************************************************************************)
Id(name) == Identifier(name)

True == Literal(PyBool(TRUE))

\* func main() { while true { f()  return 5 }  return 7 }
MainLoopCallsF == FunctionDecl("main", <<>>, << WhileStmt(True, << Call0("f"), ReturnStmt(IntLit(5)) >>), ReturnStmt(IntLit(7)) >>)

\* func main() { let x = 3  return g() }
MainCallsG == FunctionDecl("main", <<>>, << VarDecl("x", IntLit(3)), ReturnStmt(Call0("g")) >>)

\* func main(a) { return 1 }
MainWithParam == FunctionDecl("main", <<"a">>, << ReturnStmt(IntLit(1)) >>)

\* func main() { for i in range(2) { while true { if true { return i } } }  print(0) }
MainNestedReturn ==
    FunctionDecl("main", <<>>, << ForStmt("i", CallExpr(Id("range"), <<IntLit(2)>>),
                                          << WhileStmt(True, << IfStmt(True, << ReturnStmt(Id("i")) >>, <<>>) >>) >>),
                                  PrintCall(IntLit(0)) >>)

\* func main() { print(f(1)) }
MainCallsF1 == FunctionDecl("main", <<>>, << PrintCall(CallExpr(Id("f"), <<IntLit(1)>>)) >>)

\* func main() { break }
MainBreaks == FunctionDecl("main", <<>>, << BreakStmt >>)

\* func f() { break }
FBreaks == FunctionDecl("f", <<>>, << BreakStmt >>)

\* func f() { continue }
FContinues == FunctionDecl("f", <<>>, << ContinueStmt >>)

\* func f(a, b) { return a }
FTwoParams == FunctionDecl("f", <<"a", "b">>, << ReturnStmt(Id("a")) >>)

\* func f() { return 5  print(9) }
FReturns == FunctionDecl("f", <<>>, << ReturnStmt(IntLit(5)), PrintCall(IntLit(9)) >>)

\* func f(a) { if a { print(a) } }
FOneParam == FunctionDecl("f", <<"a">>, << IfStmt(Id("a"), << PrintCall(Id("a")) >>, <<>>) >>)

\* func g() { return x }
GReadsX == FunctionDecl("g", <<>>, << ReturnStmt(Id("x")) >>)

TopNodes ==
    { MainLoopCallsF, MainCallsG, MainWithParam, MainNestedReturn, MainCallsF1, MainBreaks,
      FBreaks, FContinues, FTwoParams, FReturns, FOneParam, GReadsX,
      VarDecl("x", IntLit(1)), VarDecl("main", IntLit(1)), VarDecl("y", Id("x")),
      BreakStmt, Call0("f"), WhileStmt(True, << Call0("f") >>) }

Programs == {Program(b) : b \in SeqsUpTo(TopNodes, MaxTop)}

InitRun ==
    /\ iprog \in Programs
    /\ envs = << global_env >>
    /\ call_stack = <<>>
    /\ exec_count = 0
    /\ profile = <<>>
    /\ out = <<>>
    /\ trace = <<>>
    /\ ipc = "load"
    /\ itop = 1
    /\ result = [sig |-> "none", val |-> PyNone]
    /\ IdlePM
    /\ IdleEnvironment
    /\ IdleSandbox
    /\ IdleFrontEnd

NextRun == RunLoadFunction \/ RunLoadVar \/ RunLoadStatement \/ RunCallMain

SpecRun == InitRun /\ [][NextRun]_vars

(***************************************************************************)
(* run_program on programs that end with one expression statement, after   *)
(* declarations that make its operands observable: k and h print, x and y  *)
(* are bound, u, v and w are not.                                          *)
(***************************************************************************)
\* func k() { print(1)  return 1 }
KPrints == FunctionDecl("k", <<>>, << PrintCall(IntLit(1)), ReturnStmt(IntLit(1)) >>)

\* func h() { print(2)  return 2 }
HPrintsTwo == FunctionDecl("h", <<>>, << PrintCall(IntLit(2)), ReturnStmt(IntLit(2)) >>)

Prelude == << KPrints, HPrintsTwo, FTwoParams, VarDecl("x", IntLit(1)), VarDecl("y", IntLit(2)) >>

\* false | true | x | u | k()
LeftOperands == {Literal(PyBool(FALSE)), True, Id("x"), Id("u"), Call0("k")}

\* false | y | v | h()
RightOperands == {Literal(PyBool(FALSE)), Id("y"), Id("v"), Call0("h")}

\* f | w | x
CalleeOperands == {Id("f"), Id("w"), Id("x")}

\* left op right for every binary operator, and callee(args) with up to MaxArgs arguments.
OperandExpressions ==
    {BinaryOp(l, op, r) : l \in LeftOperands, r \in RightOperands, op \in BinaryOperators \cup {"||"}}
        \cup {CallExpr(c, a) : c \in CalleeOperands, a \in SeqsUpTo(RightOperands, MaxArgs)}

OperandPrograms == {Program(Append(Prelude, e)) : e \in OperandExpressions}

InitEval ==
    /\ iprog \in OperandPrograms
    /\ envs = << global_env >>
    /\ call_stack = <<>>
    /\ exec_count = 0
    /\ profile = <<>>
    /\ out = <<>>
    /\ trace = <<>>
    /\ ipc = "load"
    /\ itop = 1
    /\ result = [sig |-> "none", val |-> PyNone]
    /\ IdlePM
    /\ IdleEnvironment
    /\ IdleSandbox
    /\ IdleFrontEnd

SpecEval == InitEval /\ [][NextRun]_vars

(***************************************************************************)
(* Properties of the interpreter, over the history in trace                *)
(***************************************************************************)
Events(kind) == {i \in DOMAIN trace : trace[i].e = kind}

Followed(i) == i < Len(trace)

Finished == ipc = "done"

\* The run ended with an exception leaving run_program (an uncaught control signal included).
EndedWithError == result.sig \in {"error", "break", "continue", "return"}

\* C4 (as claimed): a break or continue inside a loop of its own call is caught at once by a loop
\* of that call; one with no loop around it in its call is caught by no loop at all (the only
\* events between it and a catch would be the exits of the calls it leaves), and the run ends
\* with an error.
LoopControlStaysInCall ==
    \A i \in Events("break") \cup Events("continue") :
        IF trace[i].loops > 0
        THEN Followed(i) /\ trace[i + 1] = [e |-> "caught", sig |-> trace[i].e, env |-> trace[i].env]
        ELSE /\ \A j \in Events("caught") : j > i => \E m \in (i + 1)..(j - 1) : trace[m].e # "exit"
             /\ Finished => EndedWithError

\* C5: a return executed in a call is followed at once by the end of that very call with the
\* returned value as its result, a call ends "by return" only that way, a call whose body ran to
\* its end yields null, no statement of a call executes after the call has ended, and the value
\* main's call yields is the run's result.
ReturnEndsItsCall ==
    /\ \A i \in Events("return") : trace[i].env # 1 =>
            Followed(i) /\ trace[i + 1] = [e |-> "exit", env |-> trace[i].env, how |-> "return", val |-> trace[i].val]
    /\ \A i \in Events("exit") :
            /\ trace[i].how = "return" => trace[i - 1].e = "return" /\ trace[i - 1].env = trace[i].env
            /\ trace[i].how = "end" => trace[i].val = PyNone /\ \A j \in Events("return") : trace[j].env # trace[i].env
            /\ \A j \in Events("exec") : j > i => trace[j].env # trace[i].env
    /\ (Finished /\ result.sig = "ok" /\ trace[Len(trace)].e = "exit") => result.val = trace[Len(trace)].val

\* C5 witness: main returned from inside an if inside a while inside a for, and that value is the
\* run's result.
NestedReturnWitness ==
    /\ Finished /\ result.sig = "ok"
    /\ \E i \in Events("return") :
          /\ result.val = trace[i].val
          /\ \E a, b, c \in Events("exec") :
                /\ a < b /\ b < c /\ c < i
                /\ trace[a].k = "ForStmt" /\ trace[b].k = "WhileStmt" /\ trace[c].k = "IfStmt"
                /\ trace[a].env = trace[i].env /\ trace[b].env = trace[i].env /\ trace[c].env = trace[i].env

\* C6: the environment of every call has the callee's closure environment, the global one, as its
\* parent; a read resolves in the reading frame or in the global environment only; and a read of
\* a name bound in neither raises UndefinedSymbol, whatever the frames of the callers bind.
LexicalScoping ==
    /\ \A i \in Events("enter") : envs[trace[i].env].parent = trace[i].closure /\ trace[i].closure = 1
    /\ \A i \in Events("read") :
            /\ trace[i].from \in {0, 1, trace[i].env}
            /\ trace[i].from = 0 => Followed(i) /\ trace[i + 1] = [e |-> "raise", kind |-> "UndefinedSymbol"]
    /\ (Finished /\ \E i \in Events("read") : trace[i].from = 0) => result = [sig |-> "error", val |-> Exc("RuntimeError", "UndefinedSymbol")]

\* C6 witness: a callee read a name that only its caller's frame binds.
CallerLocalInvisibleWitness ==
    /\ Finished
    /\ \E i \in Events("read") : trace[i].caller /\ trace[i].from = 0 /\ trace[i].env > 2

\* C7: a call with a wrong argument count raises ArityMismatch having created no environment and
\* entered no body, nothing but the unwinding of the callers follows, and the run ends with that
\* error; every call that is entered has as many arguments as parameters, and every environment
\* but the global one belongs to an entered call.
ArityCheckedBeforeBinding ==
    /\ \A i \in Events("arity") :
            /\ Followed(i) /\ trace[i + 1] = [e |-> "raise", kind |-> "ArityMismatch"]
            /\ trace[i].nenvs = 1 + Cardinality({j \in Events("enter") : j < i})
            /\ \A j \in (i + 2)..Len(trace) : trace[j].e = "exit" /\ trace[j].how = "error"
            /\ Finished => result = [sig |-> "error", val |-> Exc("RuntimeError", "ArityMismatch")]
    /\ \A i \in Events("enter") : trace[i].nargs = trace[i].nparams
    /\ Len(envs) = 1 + Cardinality(Events("enter"))

\* C7 witness: the call of main by run_program failed on main's parameter count.
MainArityWitness ==
    /\ Finished
    /\ \E i \in Events("arity") : trace[i].fn = "main" /\ trace[i - 1].e = "main"

\* C8: when the main-call step finds no main in the global environment the run fails with
\* UndefinedSymbol, when it finds a value that is no function it fails with NotCallable, and in
\* both cases the step enters no function body.
MainLookupFailures ==
    \A m \in Events("main") :
        LET g == envs[1].values
        IN  /\ "main" \notin DOMAIN g =>
                /\ result = [sig |-> "error", val |-> Exc("RuntimeError", "UndefinedSymbol")]
                /\ \A j \in Events("enter") : j < m
            /\ ("main" \in DOMAIN g /\ g["main"].t \notin {"function", "native"}) =>
                /\ result = [sig |-> "error", val |-> Exc("RuntimeError", "NotCallable")]
                /\ \A j \in Events("enter") : j < m

\* C8 witness: main was bound to a number when the main-call step ran, after a function had been
\* called at top level.
MainNotCallableWitness ==
    /\ Finished
    /\ Events("main") # {}
    /\ "main" \in DOMAIN envs[1].values /\ envs[1].values["main"].t = "int"
    /\ Events("enter") # {}

\* The top-level nodes before node i that bind name.
DefinedBefore(i, name) ==
    {j \in 1..(i - 1) : iprog.body[j].k \in {"FunctionDecl", "VarDecl"} /\ iprog.body[j].name = name}

\* Whether the global binding of node j's name is the one node j makes (for the nodes whose
\* binding can be told from the node alone).
BindingOf(j) ==
    LET node == iprog.body[j]
        g    == envs[1].values
    IN  /\ node.name \in DOMAIN g
        /\ node.k = "FunctionDecl" => g[node.name] = FunctionValue(node.name, node.params, node.body, 1)
        /\ (node.k = "VarDecl" /\ node.value.k = "Literal") => g[node.name] = node.value.value

\* C9: the top-level nodes are processed one by one in source order, a FunctionDecl by binding
\* only, a VarDecl by evaluating its initializer in the global environment as the earlier nodes
\* left it, any other node by executing it; main is called at most once, after all of them, and
\* by every run in which none of them raised; when main is called, each top-level name has the
\* binding of its last definition.
TopLevelInOrderThenMain ==
    LET tops  == SelectSeq(trace, LAMBDA ev : ev.e = "top")
        mains == Events("main")
    IN  /\ \A j \in DOMAIN tops : tops[j].i = j /\ tops[j].k = iprog.body[j].k
        /\ \A i \in Events("top") :
              LET node == iprog.body[trace[i].i]
              IN  CASE node.k = "FunctionDecl" -> Followed(i) => trace[i + 1].e \in {"top", "main"}
                    [] node.k = "VarDecl" ->
                          node.value.k = "Identifier" =>
                              /\ Followed(i)
                              /\ trace[i + 1].e = "read" /\ trace[i + 1].env = 1 /\ trace[i + 1].name = node.value.name
                              /\ trace[i + 1].from = 1 <=> (node.value.name \in Builtins \/ DefinedBefore(trace[i].i, node.value.name) # {})
                    [] OTHER -> Followed(i) /\ trace[i + 1] = [e |-> "exec", env |-> 1, k |-> node.k]
        /\ Cardinality(mains) <= 1
        /\ \A m \in mains : Len(tops) = Len(iprog.body) /\ \A i \in Events("top") : i < m
        /\ Finished => (mains # {} \/ (EndedWithError \/ result.sig = "fuel"))
        /\ \A m \in mains : \A j \in DOMAIN iprog.body :
              (iprog.body[j].k \in {"FunctionDecl", "VarDecl"} /\ DefinedBefore(Len(iprog.body) + 1, iprog.body[j].name) \ 1..j = {})
                  => BindingOf(j)

\* C9 witness: main was called and returned after two different top-level definitions of one
\* function and a variable initialized from an earlier variable.
RedefinitionWitness ==
    /\ Finished /\ result.sig = "ok" /\ Events("main") # {}
    /\ \E i, j \in DOMAIN iprog.body :
          /\ i < j
          /\ iprog.body[i].k = "FunctionDecl" /\ iprog.body[j].k = "FunctionDecl"
          /\ iprog.body[i].name = iprog.body[j].name /\ iprog.body[i] # iprog.body[j]

\* The number of calls in progress after the first i events of the history: the calls entered
\* and not yet left.
Depth(i) ==
    Cardinality({n \in Events("enter") : n <= i}) - Cardinality({x \in Events("exit") : x <= i})

\* C29: the call stack is as deep as the number of calls in progress, between the top-level
\* steps and at every arity failure, which is followed by its raise and pushes nothing; every
\* call that is left, however it ends, is the one entered last among those in progress, was
\* entered once and is left once; and the call stack is empty when run_program has finished.
CallStackBalanced ==
    /\ Len(call_stack) = Depth(Len(trace))
    /\ \A a \in Events("arity") :
          /\ trace[a].depth = Depth(a)
          /\ Followed(a) /\ trace[a + 1] = [e |-> "raise", kind |-> "ArityMismatch"]
    /\ \A x \in Events("exit") :
          /\ \E n \in Events("enter") :
                /\ n < x /\ trace[n].env = trace[x].env
                /\ Depth(x) = Depth(n) - 1
                /\ \A i \in n..(x - 1) : Depth(i) >= Depth(n)
          /\ \A y \in Events("exit") : trace[y].env = trace[x].env => y = x
    /\ \A n, m \in Events("enter") : trace[n].env = trace[m].env => n = m
    /\ Finished => call_stack = <<>>

\* C29 witness: the run has finished with an error after a call made inside main failed its
\* arity check; main was left by that error, and the stack is empty.
UnwoundAfterFailureWitness ==
    /\ Finished /\ result.sig = "error"
    /\ call_stack = <<>>
    /\ \E a \in Events("arity") : trace[a].depth >= 1
    /\ \E x \in Events("exit") : trace[x].how = "error"

\* The expression statement a program ends with, and whether run_program has executed it.
Expr == iprog.body[Len(iprog.body)]

Operated == \E t \in Events("top") : trace[t].i = Len(iprog.body)

\* The operands of the expression in the order of the source: left, right; callee, arguments.
OperandsOf(e) == IF e.k = "BinaryOp" THEN << e.left, e.right >> ELSE << e.callee >> \o e.args

\* What the evaluation of an operand shows: the name it looks up (none for a literal), whether
\* the lookup fails, and what it prints.
NameOf(e) == IF e.k = "Identifier" THEN << e.name >> ELSE IF e.k = "CallExpr" THEN << e.callee.name >> ELSE <<>>

FailsLookup(e) == NameOf(e) # <<>> /\ NameOf(e)[1] \in {"u", "v", "w"}

PrintOf(e) ==
    IF e = Call0("k") THEN << << PyInt(1) >> >> ELSE IF e = Call0("h") THEN << << PyInt(2) >> >> ELSE <<>>

\* The lookups and the output of operands evaluated one after the other up to the first that fails.
RECURSIVE LookupsOf(_)
LookupsOf(es) ==
    IF es = <<>> THEN <<>>
    ELSE NameOf(Head(es)) \o (IF FailsLookup(Head(es)) THEN <<>> ELSE LookupsOf(Tail(es)))

RECURSIVE PrintsOf(_)
PrintsOf(es) ==
    IF es = <<>> \/ FailsLookup(Head(es)) THEN <<>> ELSE PrintOf(Head(es)) \o PrintsOf(Tail(es))

\* The names looked up in global_env so far, in order.
Lookups ==
    [i \in DOMAIN SelectSeq(trace, LAMBDA ev : ev.e = "read" /\ ev.env = 1) |->
        SelectSeq(trace, LAMBDA ev : ev.e = "read" /\ ev.env = 1)[i].name]

\* C30: once the expression statement has run, its operands were evaluated in the order of the
\* source, each of them whatever the operator and the values before it, up to the first whose
\* evaluation raised: left then right for every binary operator, && and || included; callee
\* then arguments for a call.  The lookups and the output are those of the operands in that
\* order, an unbound operand ends the run with UndefinedSymbol, and the body of the called
\* function is entered, or its arity rejected, only after every operand has been evaluated.
OperandsStrictLeftToRight ==
    Operated =>
        /\ Lookups = LookupsOf(OperandsOf(Expr))
        /\ out = PrintsOf(OperandsOf(Expr))
        /\ (\E i \in DOMAIN OperandsOf(Expr) : FailsLookup(OperandsOf(Expr)[i])) =>
              /\ result = [sig |-> "error", val |-> Exc("RuntimeError", "UndefinedSymbol")]
              /\ \A n \in Events("enter") \cup Events("arity") : trace[n].fn # "f"
        /\ \A n \in Events("enter") \cup Events("arity") : trace[n].fn = "f" =>
              /\ \A r \in Events("read") : trace[r].env = 1 => r < n
              /\ \A m \in Events("enter") : m < n => \E x \in Events("exit") : x < n /\ trace[x].env = trace[m].env

\* C30 witness: `false && v` ended with the failed lookup of v.
RightOperandRaisedWitness ==
    /\ Operated
    /\ Expr = BinaryOp(Literal(PyBool(FALSE)), "&&", Id("v"))
    /\ Lookups = << "v" >>
    /\ result = [sig |-> "error", val |-> Exc("RuntimeError", "UndefinedSymbol")]

(***************************************************************************)
(* The Environment class on its own: environments are created under an     *)
(* existing one, and names are defined and assigned in them.               *)
(***************************************************************************)
EnvNames == {"a", "b"}

EnvValues == {PyInt(1), PyInt(2)}

\* Environment(parent=e)
EnvNew ==
    /\ Len(envs) < MaxEnvs
    /\ \E e \in DOMAIN envs :
          /\ envs' = Append(envs, Environment(e))
          /\ last' = [op |-> "new", env |-> e, before |-> envs]
    /\ UNCHANGED <<sbVars, feVars, pmVars, iprog, call_stack, exec_count, profile, out, trace, ipc, itop, result>>

\* e.define(name, value)
EnvDefine ==
    /\ \E e \in DOMAIN envs, name \in EnvNames, value \in EnvValues :
          /\ envs' = Environment_define(envs, e, name, value)
          /\ last' = [op |-> "define", env |-> e, name |-> name, value |-> value, before |-> envs]
    /\ UNCHANGED <<sbVars, feVars, pmVars, iprog, call_stack, exec_count, profile, out, trace, ipc, itop, result>>

\* e.set(name, value)
EnvSet ==
    /\ \E e \in DOMAIN envs, name \in EnvNames, value \in EnvValues :
          /\ envs' = Environment_set(envs, e, name, value)
          /\ last' = [op |-> "set", env |-> e, name |-> name, value |-> value, before |-> envs]
    /\ UNCHANGED <<sbVars, feVars, pmVars, iprog, call_stack, exec_count, profile, out, trace, ipc, itop, result>>

InitEnv ==
    /\ envs = << Environment(0) >>
    /\ last = [op |-> "none"]
    /\ iprog = Program(<<>>)
    /\ call_stack = <<>>
    /\ exec_count = 0
    /\ profile = <<>>
    /\ out = <<>>
    /\ trace = <<>>
    /\ ipc = "idle"
    /\ itop = 0
    /\ result = [sig |-> "none", val |-> PyNone]
    /\ IdlePM
    /\ IdleSandbox
    /\ IdleFrontEnd

NextEnv == EnvNew \/ EnvDefine \/ EnvSet

SpecEnv == InitEnv /\ [][NextEnv]_vars

\* The parent chain of e, e first.
RECURSIVE Chain(_, _)
Chain(es, e) == IF e = 0 THEN <<>> ELSE <<e>> \o Chain(es, es[e].parent)

\* What environment e binds name to, as a set: empty when unbound.
Binding(es, e, name) == IF name \in DOMAIN es[e].values THEN {es[e].values[name]} ELSE {}

\* C10: e.set(name, v) binds name to v in the first environment of e's parent chain that bound
\* name before, or in e itself when none did; every other binding of every environment, and every
\* parent link, is as before.
SetUpdatesNearestBinding ==
    last.op = "set" =>
        LET b       == last.before
            chain   == Chain(b, last.env)
            binders == {i \in DOMAIN chain : last.name \in DOMAIN b[chain[i]].values}
            target  == IF binders = {} THEN last.env
                       ELSE chain[CHOOSE i \in binders : \A j \in binders : i <= j]
        IN  /\ Len(envs) = Len(b)
            /\ \A e \in DOMAIN envs : envs[e].parent = b[e].parent
            /\ Binding(envs, target, last.name) = {last.value}
            /\ \A e \in DOMAIN envs : \A n \in EnvNames :
                  <<e, n>> # <<target, last.name>> => Binding(envs, e, n) = Binding(b, e, n)

\* C10 witness: a set from an environment that does not bind the name changed the binding of its
\* parent, while the grandparent's binding of the same name kept another value.
SetThroughChainWitness ==
    /\ last.op = "set"
    /\ Len(Chain(last.before, last.env)) = 3
    /\ LET c == Chain(last.before, last.env)
       IN  /\ Binding(last.before, c[1], last.name) = {}
           /\ Binding(last.before, c[2], last.name) # {}
           /\ Binding(last.before, c[2], last.name) # {last.value}
           /\ Binding(envs, c[2], last.name) = {last.value}
           /\ Binding(envs, c[3], last.name) # {}
           /\ Binding(envs, c[3], last.name) # {last.value}

\* C10 witness of the other case: a set of a name bound nowhere on the chain created the binding
\* in the current environment.
SetUnboundWitness ==
    /\ last.op = "set"
    /\ Len(Chain(last.before, last.env)) > 1
    /\ \A i \in DOMAIN Chain(last.before, last.env) : Binding(last.before, Chain(last.before, last.env)[i], last.name) = {}
    /\ Binding(envs, last.env, last.name) = {last.value}

(***************************************************************************)
(* Sandbox.run (core/interpreter.py) on an Interpreter that is fresh or    *)
(* has already loaded a main.  Time is counted in ticks of the resolution  *)
(* of time.time(): two readings may be equal, and a reading is never       *)
(* smaller than the one before (a clock set back compares like one that    *)
(* stood still: the elapsed time is not above a budget >= 0).              *)
(***************************************************************************)
\* Mutant of Exceeded: a budget that is used up counts as exceeded.
Exceeded_inclusive(e, limit) == e >= limit

\* if elapsed > self.time_limit
Exceeded(e, limit) == e > limit

\* start = time.time()
SandboxStart ==
    /\ ipc = "call"
    /\ \E now \in clock..MaxClock :
          /\ clock' = now
          /\ start' = now
    /\ ipc' = "sandbox"
    /\ itop' = 1
    /\ UNCHANGED <<iprog, envs, call_stack, exec_count, profile, out, trace, result, time_limit, elapsed, pmVars, last, feVars>>

\* One iteration of `for node in program.body`: read the clock, raise when the budget is
\* exceeded, else self.interp.eval_statement(node), whatever the node is.
SandboxStep ==
    /\ ipc = "sandbox"
    /\ itop <= Len(iprog.body)
    /\ \E now \in clock..MaxClock :
          /\ clock' = now
          /\ elapsed' = now - start
          /\ Continue(Bind(IF Exceeded(now - start, time_limit)
                           THEN Error(Ev(Fields, [e |-> "check", i |-> itop, elapsed |-> now - start]),
                                      "RuntimeError", "TimeLimitExceeded")
                           ELSE Ok(Ev(Fields, [e |-> "check", i |-> itop, elapsed |-> now - start]), PyNone),
                           LAMBDA c : eval_statement(iprog.body[itop], 1, c.st, 0)))
    /\ UNCHANGED <<iprog, time_limit, start, pmVars, last, feVars>>

\* The tail of Sandbox.run: g is the outcome of global_env.get('main'), which raises when main
\* is unbound; a main that is no FunctionValue is not called.
SandboxMain(g, st) ==
    IF ~g.found THEN Error(st, "RuntimeError", "UndefinedSymbol")
    ELSE IF g.val.t = "function" THEN call_function(g.val, <<>>, st)
    ELSE Ok(st, PyNone)

SandboxCallMain ==
    /\ ipc = "sandbox"
    /\ itop > Len(iprog.body)
    /\ Return(SandboxMain(Environment_get(envs, 1, "main"), Ev(Fields, [e |-> "main"])))
    /\ UNCHANGED <<iprog, itop, sbVars, feVars, pmVars, last>>

\* func main() { return 1 }
MainReturnsOne == FunctionDecl("main", <<>>, << ReturnStmt(IntLit(1)) >>)

\* let x = 1 | print(x) | while true { print(1) break } | func f() { return 5  print(9) } |
\* func main() { return 1 }
SandboxNodes ==
    { VarDecl("x", IntLit(1)), PrintCall(Id("x")), WhileStmt(True, << PrintCall(IntLit(1)), BreakStmt >>), FReturns,
      MainReturnsOne }

SandboxPrograms == {Program(b) : b \in SeqsUpTo(SandboxNodes, MaxTop)}

\* global_env after run_program has loaded `func main() { return 1 }`.
LoadedMain == [global_env EXCEPT !.values = ("main" :> FunctionValue("main", <<>>, << ReturnStmt(IntLit(1)) >>, 1)) @@ @]

\* Sandbox(interp, time_limit) and the call of run(program).
InitSandbox ==
    /\ iprog \in SandboxPrograms
    /\ envs \in {<< global_env >>, << LoadedMain >>}
    /\ call_stack = <<>>
    /\ exec_count = 0
    /\ profile = <<>>
    /\ out = <<>>
    /\ trace = <<>>
    /\ ipc = "call"
    /\ itop = 0
    /\ result = [sig |-> "none", val |-> PyNone]
    /\ clock = 0
    /\ time_limit \in 0..MaxBudget
    /\ start = 0
    /\ elapsed = 0
    /\ IdlePM
    /\ IdleEnvironment
    /\ IdleFrontEnd

NextSandbox == SandboxStart \/ SandboxStep \/ SandboxCallMain

SpecSandbox == InitSandbox /\ [][NextSandbox]_vars

TimedOut == result = [sig |-> "error", val |-> Exc("RuntimeError", "TimeLimitExceeded")]

\* The state of a fresh Interpreter.
FreshInterpreter ==
    [envs |-> << global_env >>, call_stack |-> <<>>, exec_count |-> 0, profile |-> <<>>,
     out |-> <<>>, trace |-> <<>>, fuel |-> MaxSteps]

\* One iteration of the loop of run_program over program.body.
run_program_node(node, st) ==
    CASE node.k = "FunctionDecl" ->
            Ok([st EXCEPT !.envs = Environment_define(@, 1, node.name, FunctionValue(node.name, node.params, node.body, 1))], PyNone)
      [] node.k = "VarDecl" ->
            Bind(IF node.value = None THEN Ok(st, PyNone) ELSE eval_expression(node.value, 1, st),
                 LAMBDA v : Ok([v.st EXCEPT !.envs = Environment_define(@, 1, node.name, v.val)], PyNone))
      [] OTHER -> eval_statement(node, 1, st, 0)

\* Interpreter.run_program as one evaluation: the loop over the rest of program.body, then the
\* lookup and the call of main.
RECURSIVE run_program_from(_, _)
run_program_from(body, st) ==
    IF body = <<>> THEN CallMain(Environment_get(st.envs, 1, "main"), st)
    ELSE Bind(run_program_node(Head(body), st), LAMBDA r : run_program_from(Tail(body), r.st))

run_program(prog) == run_program_from(prog.body, FreshInterpreter)

\* Sandbox.run was called on a fresh Interpreter: the sandbox binds no main (eval_statement
\* raises on a FunctionDecl and no program here declares a variable main), so a main in
\* global_env is the one loaded before the call.
OnFreshInterpreter == "main" \notin DOMAIN envs[1].values

\* C28 (as claimed): a run of the sandbox on a fresh Interpreter that has finished without
\* exceeding its budget has the outcome of run_program on a fresh Interpreter: the same value
\* returned or the same error raised, the same bindings in the global environment and the
\* same output.
SandboxRunsLikeRunProgram ==
    (Finished /\ ~TimedOut /\ OnFreshInterpreter) =>
        /\ result = [sig |-> run_program(iprog).sig, val |-> run_program(iprog).val]
        /\ envs[1] = run_program(iprog).st.envs[1]
        /\ out = run_program(iprog).st.out


\* The clock is compared with the budget once before each top-level statement, in order, and
\* nowhere else: a comparison that finds the budget exceeded ends the run with TimeLimitExceeded
\* there and then, any other is followed at once by the whole execution of its statement, and
\* TimeLimitExceeded is raised by such a comparison only.
ChecksOnlyAtBoundaries ==
    LET checks == SelectSeq(trace, LAMBDA ev : ev.e = "check")
    IN  /\ \A j \in DOMAIN checks : checks[j].i = j
        /\ Len(checks) <= Len(iprog.body)
        /\ \A c \in Events("check") :
              IF trace[c].elapsed > time_limit
              THEN /\ Len(trace) = c + 1
                   /\ trace[c + 1] = [e |-> "raise", kind |-> "TimeLimitExceeded"]
                   /\ Finished /\ TimedOut /\ itop = trace[c].i
              ELSE /\ Followed(c)
                   /\ trace[c + 1] = [e |-> "exec", env |-> 1, k |-> iprog.body[trace[c].i].k]
        /\ \A r \in Events("raise") : trace[r].kind = "TimeLimitExceeded" => r > 1 /\ trace[r - 1].e = "check"
        /\ TimedOut => trace[Len(trace)] = [e |-> "raise", kind |-> "TimeLimitExceeded"]

\* C11 (as claimed): the clock is checked at the boundaries before the top-level statements only
\* and the run is aborted at the first one that finds the budget exceeded; and with a zero
\* budget every run of a program of two or more top-level statements ends with
\* TimeLimitExceeded, before the last statement has run.
ZeroBudgetAlwaysAborts ==
    /\ ChecksOnlyAtBoundaries
    /\ (time_limit = 0 /\ Len(iprog.body) >= 2 /\ Finished) => (TimedOut /\ itop <= Len(iprog.body))

\* C11 (amended): the clock is checked at the boundaries before the top-level statements only
\* and the run is aborted at the first one that finds the elapsed time strictly above the
\* budget; with a zero budget a finished run has ended with TimeLimitExceeded exactly when some
\* boundary found the clock later than at the start, and then no statement from that boundary
\* on has run; otherwise a statement raised first or the run completed.
SandboxAbortsAtFirstLateBoundary ==
    /\ ChecksOnlyAtBoundaries
    /\ (time_limit = 0 /\ Finished) =>
          /\ TimedOut <=> \E c \in Events("check") : trace[c].elapsed > 0
          /\ TimedOut => /\ itop <= Len(iprog.body)
                         /\ Cardinality({x \in Events("exec") : trace[x - 1].e = "check"}) = itop - 1

\* C11 witness: with a zero budget the first statement, a loop, ran through its nested
\* statements unchecked, and the run was aborted at the boundary before the second of three.
ZeroBudgetAbortWitness ==
    /\ Finished /\ TimedOut
    /\ time_limit = 0
    /\ Len(iprog.body) = 3
    /\ itop = 2
    /\ \E x \in Events("exec") : trace[x].k = "BreakStmt"
    /\ out # <<>>

(***************************************************************************)
(* Lexer (core/lexer.py).  The text is a sequence of one-character         *)
(* strings; offsets are counted from 0 as in the code, so the character   *)
(* at offset i is text[i + 1].  The master regular expression is an       *)
(* ordered alternation: at each offset the first alternative that matches *)
(* wins, and finditer moves on by one character where none does.           *)
(***************************************************************************)
Position(index, line, column) == [index |-> index, line |-> line, column |-> column]

Token(type, value, start_pos, end_pos) == [type |-> type, value |-> value, start |-> start_pos, end |-> end_pos]

\* TokenType.keywords().
keywords ==
    [w \in {"func", "let", "if", "else", "for", "while", "return", "break", "continue",
            "import", "true", "false", "null"} |->
        CASE w = "func" -> "FUNC" [] w = "let" -> "LET" [] w = "if" -> "IF" [] w = "else" -> "ELSE"
          [] w = "for" -> "FOR" [] w = "while" -> "WHILE" [] w = "return" -> "RETURN"
          [] w = "break" -> "BREAK" [] w = "continue" -> "CONTINUE" [] w = "import" -> "IMPORT"
          [] w = "true" -> "TRUE" [] w = "false" -> "FALSE" [] w = "null" -> "NULL"]

\* Lexer.DEFAULT_OPERATORS: the token type of an operator is its spelling.
DEFAULT_OPERATORS ==
    {"==", "!=", "<=", ">=", "&&", "||", "->", "+", "-", "*", "/", "%", "=", "<", ">", "!",
     "(", ")", "{", "}", "[", "]", ",", ".", ":", ";"}

\* The character classes of token_specification.
Spaces == {" ", "\t"}

Digits == {"0", "1", "2", "3", "4", "5", "6", "7", "8", "9"}

Letters ==
    {"a", "b", "c", "d", "e", "f", "g", "h", "i", "j", "k", "l", "m", "n", "o", "p", "q", "r", "s",
     "t", "u", "v", "w", "x", "y", "z", "A", "B", "C", "D", "E", "F", "G", "H", "I", "J", "K", "L",
     "M", "N", "O", "P", "Q", "R", "S", "T", "U", "V", "W", "X", "Y", "Z", "_"}

TwoCharOps == {"==", "!=", "<=", ">=", "&&", "||", "->"}

OneCharOps ==
    {"+", "-", "*", "/", "%", "!", "=", "<", ">", "(", ")", "{", "}", "[", "]", ",", ".", ":", ";", "\\"}

\* The character at offset i, "" past the end.
At(txt, i) == IF i >= 0 /\ i < Len(txt) THEN txt[i + 1] ELSE ""

\* txt[a:b] as one string.
RECURSIVE Slice(_, _, _)
Slice(txt, a, b) == IF a >= b THEN "" ELSE txt[a + 1] \o Slice(txt, a + 1, b)

\* The end of the longest run of characters of S from offset i (`[S]*`).
RECURSIVE RunEnd(_, _, _)
RunEnd(txt, i, S) == IF At(txt, i) \in S THEN RunEnd(txt, i + 1, S) ELSE i

\* The end of the line from offset i (`.*`: `.` is every character but a newline).
RECURSIVE LineEnd(_, _)
LineEnd(txt, i) == IF i >= Len(txt) \/ txt[i + 1] = "\n" THEN i ELSE LineEnd(txt, i + 1)

\* The offset of the first `*/` at or after i, -1 if there is none (`(?:.|\n)*?\*/`).
RECURSIVE CommentClose(_, _)
CommentClose(txt, i) ==
    IF i + 1 >= Len(txt) THEN 0 - 1
    ELSE IF txt[i + 1] = "*" /\ txt[i + 2] = "/" THEN i
    ELSE CommentClose(txt, i + 1)

\* The offset after the closing quote q of `(?:\\.|[^\\q])*q` from offset i, -1 if the
\* pattern does not match: a backslash takes the next character unless it is a newline.
RECURSIVE QuotedEnd(_, _, _)
QuotedEnd(txt, i, q) ==
    IF i >= Len(txt) THEN 0 - 1
    ELSE IF txt[i + 1] = q THEN i + 1
    ELSE IF txt[i + 1] = "\\"
    THEN (IF i + 1 < Len(txt) /\ txt[i + 2] # "\n" THEN QuotedEnd(txt, i + 2, q) ELSE 0 - 1)
    ELSE QuotedEnd(txt, i + 1, q)

\* The offset after `'(?:\\.|[^\\'])'` from offset i (at the opening quote), -1 if no match.
CharEnd(txt, i) ==
    IF At(txt, i + 1) = "\\"
    THEN (IF At(txt, i + 2) \notin {"", "\n"} /\ At(txt, i + 3) = "'" THEN i + 4 ELSE 0 - 1)
    ELSE IF At(txt, i + 1) \notin {"", "'"} /\ At(txt, i + 2) = "'" THEN i + 3
    ELSE 0 - 1

\* The offset after `\d+\.\d+([eE][+-]?\d+)?` from offset i (at a digit), -1 if no match.
ExponentEnd(txt, f) ==
    IF At(txt, f) \in {"e", "E"} /\ At(txt, f + 1) \in Digits THEN RunEnd(txt, f + 1, Digits)
    ELSE IF At(txt, f) \in {"e", "E"} /\ At(txt, f + 1) \in {"+", "-"} /\ At(txt, f + 2) \in Digits
    THEN RunEnd(txt, f + 2, Digits)
    ELSE f

FloatEnd(txt, i) ==
    IF At(txt, RunEnd(txt, i, Digits)) = "." /\ At(txt, RunEnd(txt, i, Digits) + 1) \in Digits
    THEN ExponentEnd(txt, RunEnd(txt, RunEnd(txt, i, Digits) + 1, Digits))
    ELSE 0 - 1

Match(kind, start_index, end_index) == [kind |-> kind, start |-> start_index, end |-> end_index]

NoMatch == Match("", 0, 0)

\* master_regex.match at offset i: the alternatives of token_specification in their order.
MatchAt(txt, i) ==
    CASE At(txt, i) \in Spaces -> Match("WHITESPACE", i, RunEnd(txt, i, Spaces))
      [] At(txt, i) = "\n" -> Match("NEWLINE", i, i + 1)
      [] At(txt, i) = "/" /\ At(txt, i + 1) = "/" -> Match("COMMENT_SL", i, LineEnd(txt, i + 2))
      [] At(txt, i) = "/" /\ At(txt, i + 1) = "*" /\ CommentClose(txt, i + 2) >= 0 ->
            Match("COMMENT_ML", i, CommentClose(txt, i + 2) + 2)
      [] At(txt, i) \in Digits /\ FloatEnd(txt, i) >= 0 -> Match("FLOAT", i, FloatEnd(txt, i))
      [] At(txt, i) \in Digits -> Match("INT", i, RunEnd(txt, i, Digits))
      [] At(txt, i) \in Letters -> Match("IDENT", i, RunEnd(txt, i, Letters \cup Digits))
      [] At(txt, i) = "\"" /\ QuotedEnd(txt, i + 1, "\"") >= 0 -> Match("STRING", i, QuotedEnd(txt, i + 1, "\""))
      [] At(txt, i) = "'" /\ CharEnd(txt, i) >= 0 -> Match("CHAR", i, CharEnd(txt, i))
      [] i + 1 < Len(txt) /\ (txt[i + 1] \o txt[i + 2]) \in TwoCharOps -> Match("OP", i, i + 2)
      [] At(txt, i) \in OneCharOps -> Match("OP", i, i + 1)
      [] OTHER -> NoMatch

\* finditer from offset i: the first offset at or after i where an alternative matches.
RECURSIVE NextMatch(_, _)
NextMatch(txt, i) ==
    IF i >= Len(txt) THEN NoMatch
    ELSE IF MatchAt(txt, i) # NoMatch THEN MatchAt(txt, i)
    ELSE NextMatch(txt, i + 1)

\* The number of newlines in txt[a:b] and the offset of the last of them.
RECURSIVE CountNewlines(_, _, _)
CountNewlines(txt, a, b) ==
    IF a >= b THEN 0 ELSE (IF txt[a + 1] = "\n" THEN 1 ELSE 0) + CountNewlines(txt, a + 1, b)

RECURSIVE LastNewline(_, _, _)
LastNewline(txt, a, b) == IF b <= a THEN 0 - 1 ELSE IF txt[b] = "\n" THEN b - 1 ELSE LastNewline(txt, a, b - 1)

\* Mutant of _advance_match: the line is advanced by one for a segment with newlines.
_advance_match_one_line(txt, pos, end_index) ==
    IF CountNewlines(txt, pos.index, end_index) > 0
    THEN Position(end_index, pos.line + 1, end_index - LastNewline(txt, pos.index, end_index))
    ELSE Position(end_index, pos.line, pos.column + (end_index - pos.index))

\* _advance_match: self.pos after the match ending at end_index (self._index is pos.index).
_advance_match(txt, pos, end_index) ==
    IF CountNewlines(txt, pos.index, end_index) > 0
    THEN Position(end_index, pos.line + CountNewlines(txt, pos.index, end_index),
                  end_index - LastNewline(txt, pos.index, end_index))
    ELSE Position(end_index, pos.line, pos.column + (end_index - pos.index))

\* int(value) of a run of digits txt[a:b].
DigitValue(c) ==
    CASE c = "0" -> 0 [] c = "1" -> 1 [] c = "2" -> 2 [] c = "3" -> 3 [] c = "4" -> 4
      [] c = "5" -> 5 [] c = "6" -> 6 [] c = "7" -> 7 [] c = "8" -> 8 [] c = "9" -> 9

RECURSIVE IntValue(_, _, _)
IntValue(txt, a, b) == IF a >= b THEN 0 ELSE IntValue(txt, a, b - 1) * 10 + DigitValue(txt[b])

RECURSIVE Pow10(_)
Pow10(n) == IF n <= 0 THEN 1 ELSE 10 * Pow10(n - 1)

\* float(value) of txt[a:b] matched by FLOAT: digits `.` digits and an optional exponent.
FloatValue(txt, a, b) ==
    LET dot == RunEnd(txt, a, Digits)
        f   == RunEnd(txt, dot + 1, Digits)
        num == IntValue(txt, a, dot) * Pow10(f - dot - 1) + IntValue(txt, dot + 1, f)
        den == Pow10(f - dot - 1)
        neg == At(txt, f + 1) = "-"
        ex  == IF f >= b THEN 0 ELSE IntValue(txt, IF At(txt, f + 1) \in Digits THEN f + 1 ELSE f + 2, b)
    IN  IF neg THEN PyFloat(num, den * Pow10(ex)) ELSE PyFloat(num * Pow10(ex), den)

\* The name of the character chr(int(hex, 16)) of a \uXXXX escape.
CodePoint(hex) == "\\u" \o hex

HexDigits == Digits \cup {"a", "b", "c", "d", "e", "f", "A", "B", "C", "D", "E", "F"}

\* _unescape_string on txt[a:b].
RECURSIVE _unescape_string(_, _, _)
_unescape_string(txt, a, b) ==
    IF a >= b THEN ""
    ELSE IF txt[a + 1] # "\\" THEN txt[a + 1] \o _unescape_string(txt, a + 1, b)
    ELSE IF a + 1 >= b THEN "\\"
    ELSE CASE txt[a + 2] = "n" -> "\n" \o _unescape_string(txt, a + 2, b)
           [] txt[a + 2] = "t" -> "\t" \o _unescape_string(txt, a + 2, b)
           [] txt[a + 2] = "r" -> "\r" \o _unescape_string(txt, a + 2, b)
           [] txt[a + 2] = "u" ->
                \* hex_digits = s[i+1:i+5], cut at the end of s; int(hex_digits, 16) on hex digits
                IF a + 2 < b /\ \A j \in (a + 3)..(IF a + 6 <= b THEN a + 6 ELSE b) : txt[j] \in HexDigits
                THEN CodePoint(Slice(txt, a + 2, IF a + 6 <= b THEN a + 6 ELSE b)) \o _unescape_string(txt, a + 6, b)
                ELSE "\\u" \o _unescape_string(txt, a + 2, b)
           [] OTHER -> txt[a + 2] \o _unescape_string(txt, a + 2, b)

\* The position tokenize gives the end of a token that it takes to stay on its line.
SameLineEnd(last_pos, m) == Position(m.end, last_pos.line, last_pos.column + (m.end - m.start))

\* The end position tokenize computes for a block comment.
CommentEnd(txt, last_pos, m) ==
    IF CountNewlines(txt, m.start, m.end) > 0
    THEN Position(m.end, last_pos.line + CountNewlines(txt, m.start, m.end),
                  (m.end - m.start) - (LastNewline(txt, m.start, m.end) - m.start))
    ELSE SameLineEnd(last_pos, m)

\* The value and type of the token tokenize yields for match m.
TokenOf(txt, m) ==
    CASE m.kind = "NEWLINE" -> [type |-> "NEWLINE", value |-> PyStr("\\n")]
      [] m.kind = "COMMENT_SL" -> [type |-> "COMMENT", value |-> PyStr(Slice(txt, m.start + 2, m.end))]
      [] m.kind = "COMMENT_ML" -> [type |-> "COMMENT", value |-> PyStr(Slice(txt, m.start + 2, m.end - 2))]
      [] m.kind = "IDENT" ->
            [type  |-> IF Slice(txt, m.start, m.end) \in DOMAIN keywords
                       THEN keywords[Slice(txt, m.start, m.end)] ELSE "IDENT",
             value |-> PyStr(Slice(txt, m.start, m.end))]
      [] m.kind = "INT" -> [type |-> "INT", value |-> PyInt(IntValue(txt, m.start, m.end))]
      [] m.kind = "FLOAT" -> [type |-> "FLOAT", value |-> FloatValue(txt, m.start, m.end)]
      [] m.kind = "STRING" -> [type |-> "STRING", value |-> PyStr(_unescape_string(txt, m.start + 1, m.end - 1))]
      [] m.kind = "CHAR" -> [type |-> "CHAR", value |-> PyStr(_unescape_string(txt, m.start + 1, m.end - 1))]
      [] m.kind = "OP" ->
            [type  |-> IF Slice(txt, m.start, m.end) \in DEFAULT_OPERATORS
                       THEN Slice(txt, m.start, m.end) ELSE "UNKNOWN",
             value |-> PyStr(Slice(txt, m.start, m.end))]

\* What one iteration of tokenize's loop yields for match m: nothing for WHITESPACE.
Yielded(txt, last_pos, m) ==
    IF m.kind = "WHITESPACE" THEN <<>>
    ELSE << Token(TokenOf(txt, m).type, TokenOf(txt, m).value,
                  Position(m.start, last_pos.line, last_pos.column),
                  CASE m.kind = "NEWLINE" -> Position(m.end, last_pos.line + 1, 1)
                    [] m.kind = "COMMENT_ML" -> CommentEnd(txt, last_pos, m)
                    [] OTHER -> SameLineEnd(last_pos, m)) >>

\* Mutant of tokenize_from: nothing is yielded after the matches.
RECURSIVE tokenize_from(_, _, _)
tokenize_from_no_eof(txt, pos, toks) ==
    IF NextMatch(txt, pos.index) = NoMatch THEN toks
    ELSE tokenize_from(txt, _advance_match(txt, pos, NextMatch(txt, pos.index).end),
                       toks \o Yielded(txt, pos, NextMatch(txt, pos.index)))

\* Lexer.tokenize from self.pos = pos (last_pos is a copy of it): the loop over the matches,
\* then the EOF token.
tokenize_from(txt, pos, toks) ==
    IF NextMatch(txt, pos.index) = NoMatch
    THEN Append(toks, Token("EOF", PyNone, Position(Len(txt), pos.line, pos.column),
                            Position(Len(txt), pos.line, pos.column)))
    ELSE tokenize_from(txt, _advance_match(txt, pos, NextMatch(txt, pos.index).end),
                       toks \o Yielded(txt, pos, NextMatch(txt, pos.index)))

\* tokenize_text(text): list(Lexer(text).tokenize()).
tokenize_text(txt) == tokenize_from(txt, Position(0, 1, 1), <<>>)

\* The pieces the texts are put together from: a name, blank, newline, the two ends of a block
\* comment, a character no alternative matches, a quote, and the backslash OP matches.
LexPieces ==
    {<<"a">>, <<" ">>, <<"\n">>, <<"/", "*">>, <<"*", "/">>, <<"@">>, <<"\"">>, <<"\\">>}

RECURSIVE Concat(_)
Concat(ps) == IF ps = <<>> THEN <<>> ELSE Head(ps) \o Concat(Tail(ps))

Texts == {Concat(ps) : ps \in SeqsUpTo(LexPieces, MaxPieces)}

InitLex ==
    /\ text \in Texts
    /\ tokens = <<>>
    /\ parsed = NotParsed
    /\ IdlePM
    /\ IdleInterpreter
    /\ IdleEnvironment
    /\ IdleSandbox

\* tokens = tokenize_text(text)
Tokenize ==
    /\ tokens = <<>>
    /\ tokens' = tokenize_text(text)
    /\ UNCHANGED <<text, parsed, pmVars, itVars, last, sbVars>>

NextLex == Tokenize

SpecLex == InitLex /\ [][NextLex]_vars

\* The tokens tokenize yields before EOF.
Emitted == {k \in DOMAIN tokens : tokens[k].type # "EOF"}

\* The tokens whose span holds offset i.
Covering(i) == {k \in Emitted : tokens[k].start.index <= i /\ i < tokens[k].end.index}

\* C21: after tokenize every character of the text that is not a blank, a tab or a newline
\* lies in the span of exactly one emitted token, and every character that starts no token
\* (here `@`, outside comments and strings) has an UNKNOWN token of its own at its offset.
EveryCharacterCovered ==
    tokens # <<>> =>
        /\ \A i \in 0..(Len(text) - 1) : text[i + 1] \notin {" ", "\t", "\n"} => Cardinality(Covering(i)) = 1
        /\ \A i \in 0..(Len(text) - 1) :
              (text[i + 1] = "@" /\ \A k \in Covering(i) : tokens[k].type \notin {"COMMENT", "STRING"}) =>
                  \E k \in Emitted : /\ tokens[k].type = "UNKNOWN"
                                      /\ tokens[k].start.index = i /\ tokens[k].end.index = i + 1

\* C22: the token sequence ends with an EOF token and holds no other.
ExactlyOneEOFLast ==
    tokens # <<>> =>
        /\ tokens[Len(tokens)].type = "EOF"
        /\ \A k \in 1..(Len(tokens) - 1) : tokens[k].type # "EOF"

\* C22 witness: a text that ends in characters no alternative matches was tokenized to a
\* name and EOF.
TrailingUnknownWitness ==
    /\ Len(text) >= 2 /\ text[Len(text)] = "@"
    /\ Len(tokens) = 2 /\ tokens[1].type = "IDENT" /\ tokens[2].type = "EOF"

\* C23: the start line of every token is 1 plus the number of newlines before its start
\* offset; so of three tokens in a row the middle one a block comment, with no newline
\* between them, the third starts as many lines below the first as the comment has newlines.
LinesCountNewlines ==
    /\ \A k \in DOMAIN tokens : tokens[k].start.line = 1 + CountNewlines(text, 0, tokens[k].start.index)
    /\ \A k \in DOMAIN tokens :
          (/\ k >= 2 /\ k < Len(tokens) /\ tokens[k].type = "COMMENT"
           /\ CountNewlines(text, tokens[k - 1].start.index, tokens[k].start.index) = 0
           /\ CountNewlines(text, tokens[k].end.index, tokens[k + 1].start.index) = 0) =>
              tokens[k + 1].start.line =
                  tokens[k - 1].start.line + CountNewlines(text, tokens[k].start.index, tokens[k].end.index)

\* C23 witness: a name, a block comment with a newline in it, and a name on line 2.
CommentNewlineWitness ==
    /\ Len(tokens) = 4
    /\ tokens[1].type = "IDENT" /\ tokens[1].start.line = 1
    /\ tokens[2].type = "COMMENT" /\ tokens[2].value = PyStr("\n")
    /\ tokens[3].type = "IDENT" /\ tokens[3].start.line = 2

(***************************************************************************)
(* Parser (core/parser.py) over a TokenStream (core/lexer.py).  ts is the  *)
(* token list and i is TokenStream.index, counted from 0; a parse function *)
(* gives the node it returns and the index it leaves, or the exception it  *)
(* raises.                                                                 *)
(***************************************************************************)
\* TokenStream.peek() and the index after TokenStream.next().
Peek(ts, i) == IF i >= Len(ts) THEN ts[Len(ts)] ELSE ts[i + 1]

Advance(ts, i) == IF i >= Len(ts) THEN i ELSE i + 1

\* A parse function returned node and left the stream at index i.
Parsed(node, i) == [ok |-> TRUE, node |-> node, i |-> i]

\* raise ParseError(message, token) with the token TokenStream.peek() gives at index i;
\* at is the place of that token in the list, counted from 1.
ParseError(message, ts, i) ==
    [ok |-> FALSE, cls |-> "ParseError", message |-> message, token |-> Peek(ts, i),
     at |-> IF i >= Len(ts) THEN Len(ts) ELSE i + 1]

\* The AttributeError of evaluating TokenType.IN: class TokenType has no attribute IN.
AttributeError == [ok |-> FALSE, cls |-> "AttributeError", message |-> "TokenType.IN"]

\* Go on with K when r is a return, pass r on when it is an exception.
Then(r, K(_)) == IF r.ok THEN K(r) ELSE r

\* Parser.PRECEDENCE
PRECEDENCE ==
    [t \in {"||", "&&", "==", "!=", "<", ">", "<=", ">=", "+", "-", "*", "/", "%"} |->
        CASE t = "||" -> 1 [] t = "&&" -> 2 [] t \in {"==", "!="} -> 3
          [] t \in {"<", ">", "<=", ">="} -> 4 [] t \in {"+", "-"} -> 5 [] t \in {"*", "/", "%"} -> 6]

\* Parser._expect: the token is taken and then compared.
_expect(ts, i, ttype) ==
    IF Peek(ts, i).type # ttype THEN ParseError("Expected", ts, i)
    ELSE Parsed(Peek(ts, i), Advance(ts, i))

\* `if self._peek().type == SEMICOLON or ... NEWLINE: self._advance()`
SkipTerminator(ts, i) == IF Peek(ts, i).type \in {";", "NEWLINE"} THEN Advance(ts, i) ELSE i

RECURSIVE program_loop(_, _, _)
RECURSIVE parse_declaration_or_statement(_, _)
RECURSIVE parse_function_decl(_, _)
RECURSIVE params_loop(_, _, _)
RECURSIVE parse_var_decl(_, _)
RECURSIVE parse_statement(_, _)
RECURSIVE parse_block_or_single(_, _)
RECURSIVE block_loop(_, _, _)
RECURSIVE parse_if(_, _)
RECURSIVE parse_while(_, _)
RECURSIVE parse_for(_, _)
RECURSIVE parse_return(_, _)
RECURSIVE parse_expression(_, _, _)
RECURSIVE expression_loop(_, _, _, _)
RECURSIVE parse_unary(_, _)
RECURSIVE parse_postfix(_, _)
RECURSIVE postfix_loop(_, _, _)
RECURSIVE expressions_loop(_, _, _)
RECURSIVE parse_call(_, _, _)
RECURSIVE parse_primary(_, _)

\* parse_primary
parse_primary(ts, i) ==
    CASE Peek(ts, i).type \in {"INT", "FLOAT", "STRING"} -> Parsed(Literal(Peek(ts, i).value), Advance(ts, i))
      [] Peek(ts, i).type = "TRUE" -> Parsed(Literal(PyBool(TRUE)), Advance(ts, i))
      [] Peek(ts, i).type = "FALSE" -> Parsed(Literal(PyBool(FALSE)), Advance(ts, i))
      [] Peek(ts, i).type = "NULL" -> Parsed(Literal(PyNone), Advance(ts, i))
      [] Peek(ts, i).type = "IDENT" -> Parsed(Identifier(Peek(ts, i).value.s), Advance(ts, i))
      [] Peek(ts, i).type = "(" ->
            Then(parse_expression(ts, Advance(ts, i), 0), LAMBDA e :
            Then(_expect(ts, e.i, ")"), LAMBDA rp :
            Parsed(e.node, rp.i)))
      [] Peek(ts, i).type = "[" ->
            Then(IF Peek(ts, Advance(ts, i)).type # "]" THEN expressions_loop(ts, Advance(ts, i), <<>>)
                 ELSE Parsed(<<>>, Advance(ts, i)), LAMBDA els :
            Then(_expect(ts, els.i, "]"), LAMBDA rb :
            Parsed(ArrayExpr(els.node), rb.i)))
      [] OTHER -> ParseError("Unexpected token in primary expression", ts, i)

\* `while True: e = parse_expression(); list.append(e); if _match(COMMA): continue; break`
expressions_loop(ts, i, list) ==
    Then(parse_expression(ts, i, 0), LAMBDA e :
    IF Peek(ts, e.i).type = "," THEN expressions_loop(ts, Advance(ts, e.i), Append(list, e.node))
    ELSE Parsed(Append(list, e.node), e.i))

\* parse_call
parse_call(ts, i, callee_node) ==
    Then(_expect(ts, i, "("), LAMBDA lp :
    Then(IF Peek(ts, lp.i).type # ")" THEN expressions_loop(ts, lp.i, <<>>) ELSE Parsed(<<>>, lp.i), LAMBDA args :
    Then(_expect(ts, args.i, ")"), LAMBDA rp :
    Parsed(CallExpr(callee_node, args.node), rp.i))))

\* The loop of parse_postfix.
postfix_loop(ts, i, node) ==
    CASE Peek(ts, i).type = "(" ->
            Then(parse_call(ts, i, node), LAMBDA c : postfix_loop(ts, c.i, c.node))
      [] Peek(ts, i).type = "[" ->
            Then(parse_expression(ts, Advance(ts, i), 0), LAMBDA idx :
            Then(_expect(ts, idx.i, "]"), LAMBDA rb :
            postfix_loop(ts, rb.i, IndexExpr(node, idx.node))))
      [] OTHER -> Parsed(node, i)

\* parse_postfix
parse_postfix(ts, i) == Then(parse_primary(ts, i), LAMBDA n : postfix_loop(ts, n.i, n.node))

\* parse_unary
parse_unary(ts, i) ==
    IF Peek(ts, i).type \in {"-", "!", "+"}
    THEN Then(parse_unary(ts, Advance(ts, i)), LAMBDA operand :
         Parsed(UnaryOp(Peek(ts, i).value.s, operand.node), operand.i))
    ELSE parse_postfix(ts, i)

\* The loop of parse_expression: the right operand is parsed at prec + 1.
expression_loop(ts, i, left, min_prec) ==
    IF Peek(ts, i).type \in DOMAIN PRECEDENCE /\ PRECEDENCE[Peek(ts, i).type] >= min_prec
    THEN Then(parse_expression(ts, Advance(ts, i), PRECEDENCE[Peek(ts, i).type] + 1), LAMBDA right :
         expression_loop(ts, right.i, BinaryOp(left, Peek(ts, i).value.s, right.node), min_prec))
    ELSE Parsed(left, i)

\* parse_expression
parse_expression(ts, i, min_prec) ==
    Then(parse_unary(ts, i), LAMBDA left : expression_loop(ts, left.i, left.node, min_prec))

\* parse_return
parse_return(ts, i) ==
    Then(_expect(ts, i, "RETURN"), LAMBDA r :
    IF Peek(ts, r.i).type \in {";", "NEWLINE"} THEN Parsed(ReturnStmt(None), Advance(ts, r.i))
    ELSE Then(parse_expression(ts, r.i, 0), LAMBDA value :
         Parsed(ReturnStmt(value.node), SkipTerminator(ts, value.i))))

\* parse_for: with an IDENT after `for` the test goes on to `self.tokens.peek(1).type ==
\* TokenType.IN`, whose right side raises AttributeError, so the branch that builds the
\* ForStmt is never entered.
parse_for(ts, i) ==
    Then(_expect(ts, i, "FOR"), LAMBDA f :
    IF Peek(ts, f.i).type = "IDENT" THEN AttributeError
    ELSE ParseError("Unsupported for-loop syntax", ts, f.i))

\* parse_while
parse_while(ts, i) ==
    Then(_expect(ts, i, "WHILE"), LAMBDA w :
    Then(parse_expression(ts, w.i, 0), LAMBDA cond :
    Then(parse_block_or_single(ts, cond.i), LAMBDA body :
    Parsed(WhileStmt(cond.node, body.node), body.i))))

\* parse_if
parse_if(ts, i) ==
    Then(_expect(ts, i, "IF"), LAMBDA f :
    Then(parse_expression(ts, f.i, 0), LAMBDA cond :
    Then(parse_block_or_single(ts, cond.i), LAMBDA then_branch :
    IF Peek(ts, then_branch.i).type = "ELSE"
    THEN Then(parse_block_or_single(ts, Advance(ts, then_branch.i)), LAMBDA else_branch :
         Parsed(IfStmt(cond.node, then_branch.node, else_branch.node), else_branch.i))
    ELSE Parsed(IfStmt(cond.node, then_branch.node, None), then_branch.i))))

\* The loop of parse_block.
block_loop(ts, i, nodes) ==
    IF Peek(ts, i).type \in {"}", "EOF"} THEN Parsed(nodes, i)
    ELSE IF Peek(ts, i).type \in {"NEWLINE", "COMMENT"} THEN block_loop(ts, Advance(ts, i), nodes)
    ELSE Then(parse_declaration_or_statement(ts, i), LAMBDA n : block_loop(ts, n.i, Append(nodes, n.node)))

\* parse_block
parse_block(ts, i) ==
    Then(_expect(ts, i, "{"), LAMBDA lb :
    Then(block_loop(ts, lb.i, <<>>), LAMBDA nodes :
    Then(_expect(ts, nodes.i, "}"), LAMBDA rb :
    Parsed(nodes.node, rb.i))))

\* parse_block_or_single
parse_block_or_single(ts, i) ==
    CASE Peek(ts, i).type = "{" -> parse_block(ts, i)
      [] Peek(ts, i).type = ":" ->
            Then(parse_statement(ts, Advance(ts, i)), LAMBDA stmt : Parsed(<< stmt.node >>, stmt.i))
      [] OTHER -> ParseError("Expected block or single-statement", ts, i)

\* parse_statement
parse_statement(ts, i) ==
    CASE Peek(ts, i).type = "IF" -> parse_if(ts, i)
      [] Peek(ts, i).type = "WHILE" -> parse_while(ts, i)
      [] Peek(ts, i).type = "FOR" -> parse_for(ts, i)
      [] Peek(ts, i).type = "RETURN" -> parse_return(ts, i)
      [] Peek(ts, i).type = "BREAK" -> Parsed(BreakStmt, Advance(ts, i))
      [] Peek(ts, i).type = "CONTINUE" -> Parsed(ContinueStmt, Advance(ts, i))
      [] OTHER -> Then(parse_expression(ts, i, 0), LAMBDA expr : Parsed(expr.node, SkipTerminator(ts, expr.i)))

\* parse_var_decl
parse_var_decl(ts, i) ==
    Then(_expect(ts, i, "LET"), LAMBDA l :
    Then(_expect(ts, l.i, "IDENT"), LAMBDA name_tok :
    IF Peek(ts, name_tok.i).type = "="
    THEN Then(parse_expression(ts, Advance(ts, name_tok.i), 0), LAMBDA value :
         Parsed(VarDecl(name_tok.node.value.s, value.node), SkipTerminator(ts, value.i)))
    ELSE Parsed(VarDecl(name_tok.node.value.s, None), SkipTerminator(ts, name_tok.i))))

\* The parameter loop of parse_function_decl.
params_loop(ts, i, params) ==
    Then(_expect(ts, i, "IDENT"), LAMBDA q :
    IF Peek(ts, q.i).type = "," THEN params_loop(ts, Advance(ts, q.i), Append(params, q.node.value.s))
    ELSE Parsed(Append(params, q.node.value.s), q.i))

\* parse_function_decl
parse_function_decl(ts, i) ==
    Then(_expect(ts, i, "FUNC"), LAMBDA f :
    Then(_expect(ts, f.i, "IDENT"), LAMBDA name_tok :
    Then(_expect(ts, name_tok.i, "("), LAMBDA lp :
    Then(IF Peek(ts, lp.i).type # ")" THEN params_loop(ts, lp.i, <<>>) ELSE Parsed(<<>>, lp.i), LAMBDA params :
    Then(_expect(ts, params.i, ")"), LAMBDA rp :
    Then(parse_block_or_single(ts, rp.i), LAMBDA body :
    Parsed(FunctionDecl(name_tok.node.value.s, params.node, body.node), body.i)))))))

\* parse_declaration_or_statement
parse_declaration_or_statement(ts, i) ==
    CASE Peek(ts, i).type = "FUNC" -> parse_function_decl(ts, i)
      [] Peek(ts, i).type = "LET" -> parse_var_decl(ts, i)
      [] OTHER -> parse_statement(ts, i)

\* The loop of parse_program.
program_loop(ts, i, body) ==
    IF Peek(ts, i).type = "EOF" THEN Parsed(Program(body), i)
    ELSE IF Peek(ts, i).type \in {"NEWLINE", "COMMENT"} THEN program_loop(ts, Advance(ts, i), body)
    ELSE Then(parse_declaration_or_statement(ts, i), LAMBDA decl : program_loop(ts, decl.i, Append(body, decl.node)))

\* Parser(TokenStream(ts)).parse_program()
parse_program(ts) == program_loop(ts, 0, <<>>)

\* parse_text(src) after its first line: the parser runs on the tokens.
Parse ==
    /\ tokens # <<>>
    /\ parsed = NotParsed
    /\ parsed' = parse_program(tokens)
    /\ UNCHANGED <<text, tokens, pmVars, itVars, last, sbVars>>

\* The words of the source texts, as characters.
Word ==
    [w \in {"func", "main", "return", "for", "in", "break", "let", "if", "else", "while"} |->
        CASE w = "func" -> <<"f", "u", "n", "c">>
          [] w = "main" -> <<"m", "a", "i", "n">>
          [] w = "return" -> <<"r", "e", "t", "u", "r", "n">>
          [] w = "for" -> <<"f", "o", "r">>
          [] w = "in" -> <<"i", "n">>
          [] w = "break" -> <<"b", "r", "e", "a", "k">>
          [] w = "let" -> <<"l", "e", "t">>
          [] w = "if" -> <<"i", "f">>
          [] w = "else" -> <<"e", "l", "s", "e">>
          [] w = "while" -> <<"w", "h", "i", "l", "e">>]

\* The texts the edits start from, as words.
FuncMain ==
    << Word["func"], Word["main"], <<"(">>, <<")">>, <<"{">>, Word["return"],
       <<"1">>, <<"+">>, <<"2">>, <<"*">>, <<"3">>, <<"}">> >>

ForBlock == << Word["for"], <<"x">>, Word["in"], <<"y">>, <<"{">>, Word["break"], <<"}">> >>

ForSingle == << Word["for"], <<"x">>, Word["in"], <<"y">>, <<":">>, Word["break"] >>

LetSum == << Word["let"], <<"a">>, <<"=">>, <<"1">>, <<"*">>, <<"2">>, <<"+">>, <<"3">>, <<"*">>, <<"4">>, <<";">> >>

IfElse ==
    << Word["if"], <<"a">>, <<"{">>, <<"f">>, <<"(">>, <<"1">>, <<",">>, <<"x">>, <<")">>, <<"}">>,
       Word["else"], <<":">>, <<"x">>, <<"[">>, <<"0">>, <<"]">> >>

WhileNot == << Word["while"], <<"!">>, <<"a">>, <<"{">>, Word["let"], <<"a">>, <<"}">> >>

BaseTexts == {FuncMain, ForBlock, ForSingle, LetSum, IfElse, WhileNot}

\* The words an edit puts in the place of another.
EditWords == {<<"{">>, <<"}">>, <<"(">>, <<")">>, <<"+">>, <<"x">>, <<"1">>, <<";">>}

\* One edit of a text: a word is left out, the text is cut before a word, or a word is
\* replaced.
Variants(ws) ==
    {ws}
        \cup {SubSeq(ws, 1, k - 1) \o SubSeq(ws, k + 1, Len(ws)) : k \in DOMAIN ws}
        \cup {SubSeq(ws, 1, k - 1) : k \in DOMAIN ws}
        \cup {[ws EXCEPT ![k] = w] : k \in DOMAIN ws, w \in EditWords}

RECURSIVE Edited(_, _)
Edited(S, n) == IF n = 0 THEN S ELSE Edited(UNION {Variants(ws) : ws \in S}, n - 1)

\* The expressions: two binary operators on three numbers, a prefix operator on either
\* operand of a binary operator, and `1 * 2 + 3 * 4`.
BinaryWords ==
    {<<"|", "|">>, <<"&", "&">>, <<"=", "=">>, <<"!", "=">>, <<"<">>, <<">">>, <<"<", "=">>, <<">", "=">>,
     <<"+">>, <<"-">>, <<"*">>, <<"/">>, <<"%">>}

PrefixWords == {<<"-">>, <<"!">>, <<"+">>}

ExpressionTexts ==
    {<< <<"1">>, a, <<"2">>, b, <<"3">> >> : a \in BinaryWords, b \in BinaryWords}
        \cup {<< u, <<"1">>, a, <<"2">> >> : u \in PrefixWords, a \in BinaryWords}
        \cup {<< <<"1">>, a, u, <<"2">> >> : u \in PrefixWords, a \in BinaryWords}
        \cup {<< <<"1">>, <<"*">>, <<"2">>, <<"+">>, <<"3">>, <<"*">>, <<"4">> >>}

\* The words with a blank between them.
RECURSIVE Join(_)
Join(ws) == IF ws = <<>> THEN <<>> ELSE IF Len(ws) = 1 THEN ws[1] ELSE ws[1] \o <<" ">> \o Join(Tail(ws))

Sources == {Join(ws) : ws \in Edited(BaseTexts, MaxEdits) \cup ExpressionTexts}

InitParse ==
    /\ text \in Sources
    /\ tokens = <<>>
    /\ parsed = NotParsed
    /\ IdlePM
    /\ IdleInterpreter
    /\ IdleEnvironment
    /\ IdleSandbox

NextParse == Tokenize \/ Parse

SpecParse == InitParse /\ [][NextParse]_vars

(***************************************************************************)
(* Properties of the front end.                                            *)
(***************************************************************************)
\* parse_text has run.
ParseDone == parsed # NotParsed

\* The type of the k-th token, "" where there is none.
TypeAt(k) == IF k \in DOMAIN tokens THEN tokens[k].type ELSE ""

\* The levels of the binary operators as claimed, lowest first.
Level(op) ==
    CASE op = "||" -> 1 [] op = "&&" -> 2 [] op \in {"==", "!="} -> 3
      [] op \in {"<", ">", "<=", ">="} -> 4 [] op \in {"+", "-"} -> 5 [] op \in {"*", "/", "%"} -> 6

BinaryTypes == {"||", "&&", "==", "!=", "<", ">", "<=", ">=", "+", "-", "*", "/", "%"}

\* The token types of the text are exactly ts, then EOF.
TokensAre(ts) == Len(tokens) = Len(ts) + 1 /\ \A k \in DOMAIN ts : TypeAt(k) \in ts[k]

\* The literal of the k-th token.
Lit(k) == Literal(tokens[k].value)

\* The expression statement parse_text returned evaluates to the int n.
EvaluatesTo(n) ==
    /\ parsed.ok /\ Len(parsed.node.body) = 1
    /\ eval_expression(parsed.node.body[1], 1, FreshInterpreter).sig = "ok"
    /\ eval_expression(parsed.node.body[1], 1, FreshInterpreter).val = PyInt(n)

\* The text is these words with a blank between them.
TextIs(ws) == text = Join(ws)

\* C24: `1 a 2 b 3` is parsed as 1 a (2 b 3) when b is of a higher level than a and as
\* (1 a 2) b 3 otherwise; `u 1 a 2` as (u 1) a 2 and `1 a u 2` as 1 a (u 2) for a prefix
\* operator u; and `1 + 2 * 3` evaluates to 7, `1 * 2 + 3 * 4` to 14.
PrecedenceAndValue ==
    ParseDone =>
        /\ TokensAre(<< {"INT"}, BinaryTypes, {"INT"}, BinaryTypes, {"INT"} >>) =>
              /\ parsed.ok
              /\ parsed.node =
                    Program(<< IF Level(TypeAt(4)) > Level(TypeAt(2))
                               THEN BinaryOp(Lit(1), TypeAt(2), BinaryOp(Lit(3), TypeAt(4), Lit(5)))
                               ELSE BinaryOp(BinaryOp(Lit(1), TypeAt(2), Lit(3)), TypeAt(4), Lit(5)) >>)
        /\ TokensAre(<< {"-", "!", "+"}, {"INT"}, BinaryTypes, {"INT"} >>) =>
              /\ parsed.ok
              /\ parsed.node = Program(<< BinaryOp(UnaryOp(TypeAt(1), Lit(2)), TypeAt(3), Lit(4)) >>)
        /\ TokensAre(<< {"INT"}, BinaryTypes, {"-", "!", "+"}, {"INT"} >>) =>
              /\ parsed.ok
              /\ parsed.node = Program(<< BinaryOp(Lit(1), TypeAt(2), UnaryOp(TypeAt(3), Lit(4))) >>)
        /\ TextIs(<< <<"1">>, <<"+">>, <<"2">>, <<"*">>, <<"3">> >>) => EvaluatesTo(7)
        /\ TextIs(<< <<"1">>, <<"*">>, <<"2">>, <<"+">>, <<"3">>, <<"*">>, <<"4">> >>) => EvaluatesTo(14)

\* The token types that can start an expression, and those an expression has to follow.
ExpressionStart == {"INT", "FLOAT", "STRING", "TRUE", "FALSE", "NULL", "IDENT", "(", "[", "-", "!", "+"}

ExpressionBefore == BinaryTypes \cup {"!", "=", ",", "IF", "WHILE"}

\* The k-th token stands where another one is required: a name after `func`, `let` and
\* `for`, `(` after the name of a function, `in` after the name of a for, a block after
\* `else`, and the start of an expression where an expression is required.
Misplaced(k) ==
    \/ TypeAt(k - 1) \in {"FUNC", "LET", "FOR"} /\ TypeAt(k) # "IDENT"
    \/ TypeAt(k - 2) = "FUNC" /\ TypeAt(k - 1) = "IDENT" /\ TypeAt(k) # "("
    \/ TypeAt(k - 2) = "FOR" /\ TypeAt(k - 1) = "IDENT" /\ tokens[k].value # PyStr("in")
    \/ TypeAt(k - 1) = "ELSE" /\ TypeAt(k) \notin {"{", ":"}
    \/ TypeAt(k - 1) \in ExpressionBefore /\ TypeAt(k) \notin ExpressionStart
    \/ TypeAt(k - 1) = "(" /\ TypeAt(k) \notin ExpressionStart \cup {")"}
    \/ TypeAt(k - 1) = "[" /\ TypeAt(k) \notin ExpressionStart \cup {"]"}

\* There are more `{` than `}`: a block reaches EOF.
Unclosed == Cardinality({k \in DOMAIN tokens : TypeAt(k) = "{"}) > Cardinality({k \in DOMAIN tokens : TypeAt(k) = "}"})

\* parse_text raised a ParseError that carries one of the tokens.
RaisedParseError == ~parsed.ok /\ parsed.cls = "ParseError" /\ parsed.token = tokens[parsed.at]

\* C25: parse_text ends with a Program that took every token or with a ParseError that
\* carries a token, and with nothing else; it ends with the ParseError when a token is
\* misplaced or a block is not closed, and then at the first misplaced token or before it;
\* and the tokens after the one the error carries make no difference to it.
FailFast ==
    ParseDone =>
        /\ parsed.ok => parsed.node.k = "Program" /\ parsed.i = Len(tokens) - 1
        /\ ~parsed.ok => RaisedParseError
        /\ (Unclosed \/ \E k \in DOMAIN tokens : Misplaced(k)) =>
              /\ RaisedParseError
              /\ \A k \in DOMAIN tokens : Misplaced(k) => parsed.at <= k
        /\ (RaisedParseError /\ parsed.at < Len(tokens)) =>
              parse_program(SubSeq(tokens, 1, parsed.at) \o << tokens[Len(tokens)] >>).at = parsed.at

\* C26: `for x in y { break }` and `for x in y : break` are parsed to the ForStmt of x, y
\* and the body, and a text that starts with `for` and goes on otherwise than with a name
\* and `in` ends with a ParseError.
ForEachAccepted ==
    ParseDone =>
        /\ (TextIs(ForBlock) \/ TextIs(ForSingle)) =>
              /\ parsed.ok
              /\ parsed.node = Program(<< ForStmt("x", Identifier("y"), << BreakStmt >>) >>)
        /\ (TypeAt(1) = "FOR" /\ ~(TypeAt(2) = "IDENT" /\ Len(tokens) >= 3 /\ tokens[3].value = PyStr("in"))) =>
              RaisedParseError

====
